---------------------------- MODULE Spec2Model ----------------------------
(***************************************************************************)
(* A model of the permission relay of opencode-channels-plugin:            *)
(*   - PendingRequestsStore        (src/src/state/pending.ts)              *)
(*   - BaseChannel.parseResponse   (src/src/channels/base.ts)              *)
(*   - TelegramChannel             (src/src/channels/telegram.ts)          *)
(*   - PermissionHandler           (src/unnamed/part_002, lines 164-229)   *)
(*                                                                         *)
(* JavaScript runs each stretch of code between two awaits atomically, so  *)
(* every action below is one such stretch; an await is a change of a       *)
(* program counter, and the continuation is another action.                *)
(***************************************************************************)
EXTENDS Integers, Sequences, FiniteSets, TLC

(***************************************************************************)
(* Bounds of the model.                                                    *)
(***************************************************************************)
MaxRequests == 2      \* request ids / concurrent handlePermissionRequest calls
MaxPromises == 2      \* calls of PendingRequestsStore.add in the store-only specification
MaxTime == 2          \* the clock runs 0..MaxTime
MaxWindow == 2        \* timeout windows are 1..MaxWindow time units
MaxDispatch == 2      \* inbound updates matched to a request, in all
MaxForeign == 1       \* messages in the chat that are not permission requests
MaxTextLen == 3       \* every text of up to MaxTextLen characters is normalized
MaxPad == 1           \* blanks put before and after the longer words
MaxStarts == 2        \* calls of TelegramChannel.start
MaxUpdates == 2       \* updates the messaging service holds, update_id 1..MaxUpdates
MaxHandled == 2       \* the count of handlings of one update stops here
MaxFailures == 1      \* the count of failed receive calls of one loop stops here
MaxCalls == 2         \* calls of handleIncoming
MaxNotifies == 2      \* calls of notify
MaxSessions == 6      \* sessions the host lists, at most
MaxStamp == 2         \* time.updated of a session is 0..MaxStamp

ReqIds == 1..MaxRequests
Windows == 1..MaxWindow

(***************************************************************************)
(* Text.  A string is a sequence of characters; the alphabet holds the     *)
(* letters of the decision words in both cases, a blank and the two        *)
(* glyphs of the permission message.                                       *)
(***************************************************************************)
CheckGlyph == "[check]"
CrossGlyph == "[cross]"
Blank == " "

Upper == <<"A", "D", "E", "L", "N", "O", "S", "W", "Y">>
Lower == <<"a", "d", "e", "l", "n", "o", "s", "w", "y">>

\* String.prototype.toLowerCase, one character
toLowerChar(c) ==
    IF \E i \in 1..Len(Upper) : Upper[i] = c
    THEN Lower[CHOOSE i \in 1..Len(Upper) : Upper[i] = c]
    ELSE c

\* String.prototype.toLowerCase
toLowerCase(s) == [i \in 1..Len(s) |-> toLowerChar(s[i])]

RECURSIVE trimStart(_)
trimStart(s) ==
    IF s # <<>> /\ Head(s) = Blank THEN trimStart(Tail(s)) ELSE s

RECURSIVE trimEnd(_)
trimEnd(s) ==
    IF s # <<>> /\ s[Len(s)] = Blank THEN trimEnd(SubSeq(s, 1, Len(s) - 1)) ELSE s

\* String.prototype.trim
trim(s) == trimEnd(trimStart(s))

ALLOW == <<"a", "l", "l", "o", "w">>
DENY == <<"d", "e", "n", "y">>

\* parseResponse comparing the text as typed, without toLowerCase
parseResponseCaseSensitive(t) ==
    LET normalized == trim(t) IN
    IF normalized \in {ALLOW, <<"y", "e", "s">>, <<"y">>, <<CheckGlyph>>} THEN ALLOW
    ELSE IF normalized \in {DENY, <<"n", "o">>, <<"n">>, <<CrossGlyph>>} THEN DENY
    ELSE trim(t)

\* parseResponse passing other text through in lower case
parseResponseLowers(t) ==
    LET normalized == trim(toLowerCase(t)) IN
    IF normalized \in {ALLOW, <<"y", "e", "s">>, <<"y">>, <<CheckGlyph>>} THEN ALLOW
    ELSE IF normalized \in {DENY, <<"n", "o">>, <<"n">>, <<CrossGlyph>>} THEN DENY
    ELSE normalized

\* parseResponse taking one blank at most from each end of other text
parseResponseStripsOneBlank(t) ==
    LET normalized == trim(toLowerCase(t))
        front == IF t # <<>> /\ Head(t) = Blank THEN Tail(t) ELSE t
    IN
    IF normalized \in {ALLOW, <<"y", "e", "s">>, <<"y">>, <<CheckGlyph>>} THEN ALLOW
    ELSE IF normalized \in {DENY, <<"n", "o">>, <<"n">>, <<CrossGlyph>>} THEN DENY
    ELSE IF front # <<>> /\ front[Len(front)] = Blank
         THEN SubSeq(front, 1, Len(front) - 1)
         ELSE front

\* BaseChannel.parseResponse
parseResponse(text) ==
    LET normalized == trim(toLowerCase(text)) IN
    IF normalized \in {ALLOW, <<"y", "e", "s">>, <<"y">>, <<CheckGlyph>>} THEN ALLOW
    ELSE IF normalized \in {DENY, <<"n", "o">>, <<"n">>, <<CrossGlyph>>} THEN DENY
    ELSE trim(text)

\* Texts a human sends: an affirmative, a negative with blanks, custom text, no text
Texts == { <<"Y", "E", "S">>, <<Blank, "n", Blank>>, <<Blank, "D", "o">>, <<>> }

\* Errors an awaitable fails with
TimeoutError == <<"Permission request timeout">>
ClearedError == <<"Store cleared">>
CallerError == <<"caller error">>
SendError == <<"Failed to send permission request">>

Decisions == { parseResponse(t) : t \in Texts }

VARIABLES
    \* PendingRequestsStore
    requests,          \* the Map requests: id -> the awaitable its record completes
    timeoutMs,         \* the field timeoutMs
    promises,          \* every awaitable add has returned, in creation order, with its timer
    now,               \* the clock
    lastCall,          \* the last call on the store and what it returned
    \* TelegramChannel and the messaging service
    pendingMessageIds, \* the Map pendingMessageIds: request id -> native message id
    nextMessageId,     \* the next message id the messaging service assigns
    pollPc,            \* where the handling of the current update stands
    lastRoute,         \* where handleUpdate sent the update handled last
    dispatched,        \* per request id, the calls of notifyResponse
    lastAnswer,        \* answerCallbackQuery for the update handled last: none, pending, ok, failed
    \* PermissionHandler.handlePermissionRequest, one call per request id
    pc,                \* where each call stands
    nativeId,          \* the message id the service assigned to the call's message
    hPromise,          \* the call's responsePromise
    hResult,           \* what the call returned or threw
    edit,              \* the terminal edit of the call's message
    hook,              \* the permission.ask hook that made the call: its end and output.status
    \* the plugin
    active,            \* activate has run and deactivate has not
    \* the receive loop of TelegramChannel and the service's update queue
    pollingActive,     \* the field pollingActive
    lastUpdateId,      \* the field lastUpdateId, the receive cursor
    pollAbortController, \* the loop whose AbortController the field holds; 0 for null
    loops,             \* every call of poll(), in the order of the start() calls
    svcUpdates,        \* the service holds the updates of update_id 1..svcUpdates
    handled,           \* per update_id, the calls of handleUpdate
    stoppedWith,       \* the request ids the store held at the last call of stop()
    \* BaseChannel.parseResponse applied to a text, and to its own result
    text,
    parsed,
    parsedAgain,
    \* the plugin's activation
    config,            \* the configuration the activation finds
    plugin,            \* how far the activation came and what it has created
    \* RemoteController and ChannelsStateStore
    enabled,           \* the field enabled of the controller
    activeSessionId,   \* state.activeSessionId of the state store; <<>> for undefined
    persisted,         \* activeSessionId in the state file; <<>> for none
    calls,             \* every call of handleIncoming, in the order of arrival
    \* NotificationHandler
    notifyConfig,      \* the field config of the handler: the notification flags
    notifyCalls,       \* every call of notify, in the order of the calls
    \* sendSessionList applied to a listing
    listInput,         \* the sessions the host lists and the active session id
    listOutput,        \* the message sendSessionList makes of them
    \* the state file's cursor checkpoint, and what the service's updates hold
    cursorCheckpoint,  \* channels.telegram.lastUpdateId in the state file; 0 for none
    svcContent         \* the content of the updates the service holds, where it matters

storeVars == <<requests, timeoutMs, promises, now, lastCall>>
channelVars == <<pendingMessageIds, nextMessageId, pollPc,
                 lastRoute, dispatched, lastAnswer>>
handlerVars == <<pc, nativeId, hPromise, hResult, edit, hook, active>>
vars == <<requests, timeoutMs, promises, now, lastCall,
          pendingMessageIds, nextMessageId, pollPc,
          lastRoute, dispatched, lastAnswer, pc, nativeId, hPromise, hResult, edit, hook,
          active, pollingActive, lastUpdateId, pollAbortController, loops,
          svcUpdates, handled, stoppedWith, text, parsed, parsedAgain,
          config, plugin, enabled, activeSessionId, persisted, calls,
          notifyConfig, notifyCalls, listInput, listOutput, cursorCheckpoint, svcContent>>
loopVars == <<pollingActive, lastUpdateId, pollAbortController, loops,
              svcUpdates, handled, stoppedWith>>
parseVars == <<text, parsed, parsedAgain>>
pluginVars == <<config, plugin>>
remoteVars == <<enabled, activeSessionId, persisted, calls>>
notifyVars == <<notifyConfig, notifyCalls>>
listVars == <<listInput, listOutput>>
deliveryVars == <<cursorCheckpoint, svcContent>>
otherVars == <<notifyVars, listVars, deliveryVars>>
permissionVars == <<storeVars, channelVars, handlerVars>>

(***************************************************************************)
(* Maps (the JavaScript Map): functions on the set of their keys.          *)
(***************************************************************************)
EmptyMap == << >>
MapSet(m, k, v) == [x \in DOMAIN m \cup {k} |-> IF x = k THEN v ELSE m[x]]
MapDelete(m, k) == [x \in DOMAIN m \ {k} |-> m[x]]

(***************************************************************************)
(* Promises.  The resolve and reject functions of a promise settle it the  *)
(* first time either is called and do nothing afterwards; calls counts the *)
(* calls of either.                                                        *)
(***************************************************************************)
Settle(ps, p, st, v) ==
    [ps EXCEPT ![p] = [id |-> ps[p].id,
                       st |-> IF ps[p].st = "pending" THEN st ELSE ps[p].st,
                       val |-> IF ps[p].st = "pending" THEN v ELSE ps[p].val,
                       calls |-> ps[p].calls + 1,
                       addedAt |-> ps[p].addedAt,
                       window |-> ps[p].window,
                       fired |-> ps[p].fired]]

RECURSIVE SettleAll(_, _, _, _)
SettleAll(ps, todo, st, v) ==
    IF todo = {} THEN ps
    ELSE LET p == CHOOSE x \in todo : TRUE
         IN SettleAll(Settle(ps, p, st, v), todo \ {p}, st, v)

Call(op, id, ret) == [op |-> op, id |-> id, ret |-> ret]

(***************************************************************************)
(* PendingRequestsStore.  Each operator gives the store after the call as  *)
(* a record: the map, the promises, and the value the call returns.        *)
(***************************************************************************)
After(reqs, ps, ret) == [requests |-> reqs, promises |-> ps, ret |-> ret]

\* add: a new promise, the record stored under the id, a timer of timeoutMs
add(reqs, ps, id, ms, t) ==
    LET p == Len(ps) + 1 IN
    After(MapSet(reqs, id, p),
          Append(ps, [id |-> id, st |-> "pending", val |-> <<>>, calls |-> 0,
                      addedAt |-> t, window |-> ms, fired |-> FALSE]),
          TRUE)

\* resolve that, finding no record under the id, completes the oldest record instead
resolveFallsBack(reqs, ps, id, response) ==
    IF id \in DOMAIN reqs
    THEN After(MapDelete(reqs, id), Settle(ps, reqs[id], "fulfilled", response), TRUE)
    ELSE IF reqs = EmptyMap THEN After(reqs, ps, FALSE)
    ELSE LET j == CHOOSE x \in DOMAIN reqs : \A y \in DOMAIN reqs : reqs[x] <= reqs[y]
         IN After(MapDelete(reqs, j), Settle(ps, reqs[j], "fulfilled", response), TRUE)

\* resolve that completes the awaitable and leaves the record in the map
resolveKeepsRecord(reqs, ps, id, response) ==
    IF id \notin DOMAIN reqs THEN After(reqs, ps, FALSE)
    ELSE After(reqs, Settle(ps, reqs[id], "fulfilled", response), TRUE)

\* resolve(id, response)
resolve(reqs, ps, id, response) ==
    IF id \notin DOMAIN reqs THEN After(reqs, ps, FALSE)
    ELSE After(MapDelete(reqs, id), Settle(ps, reqs[id], "fulfilled", response), TRUE)

\* reject(id, error)
reject(reqs, ps, id, error) ==
    IF id \notin DOMAIN reqs THEN After(reqs, ps, FALSE)
    ELSE After(MapDelete(reqs, id), Settle(ps, reqs[id], "rejected", error), TRUE)

\* clear that empties the map and completes nothing
clearDropsSilently(reqs, ps) == After(EmptyMap, ps, TRUE)

\* clear()
clear(reqs, ps) ==
    After(EmptyMap,
          SettleAll(ps, {reqs[i] : i \in DOMAIN reqs}, "rejected", ClearedError),
          TRUE)

\* a timer callback that removes the record and does not fail the awaitable
onTimeoutDropsSilently(reqs, ps, p) ==
    LET fired == [ps EXCEPT ![p].fired = TRUE] IN
    IF ps[p].id \in DOMAIN reqs
    THEN After(MapDelete(reqs, ps[p].id), fired, TRUE)
    ELSE After(reqs, fired, FALSE)

\* the callback add hands to setTimeout, for promise p
onTimeout(reqs, ps, p) ==
    LET fired == [ps EXCEPT ![p].fired = TRUE] IN
    IF ps[p].id \in DOMAIN reqs
    THEN After(MapDelete(reqs, ps[p].id), Settle(fired, p, "rejected", TimeoutError), TRUE)
    ELSE After(reqs, fired, FALSE)

\* a timer that may run as soon as it is set
TimerDueAtOnce(ps, p, t) == ~ps[p].fired /\ t >= ps[p].addedAt

\* setTimeout runs the callback no earlier than the delay after the call
TimerDue(ps, p, t) == ~ps[p].fired /\ t >= ps[p].addedAt + ps[p].window

(***************************************************************************)
(* The state after construction.                                           *)
(***************************************************************************)
NoResult == [st |-> "none", val |-> <<>>]
NoEdit == [n |-> 0, content |-> "none", ok |-> "none"]
HookRunning == [st |-> "running", status |-> "unset"]
NotParsed == <<"not parsed">>
NoConfig == [found |-> FALSE]
NoListing == [sessions |-> <<>>, active |-> <<>>]
NotListed == [top |-> <<>>, header |-> "not listed", lines |-> <<>>, footer |-> <<>>]
NotActivated == [pc |-> "idle", entry |-> "none", channel |-> FALSE, store |-> FALSE,
                 handler |-> FALSE, started |-> FALSE, hooks |-> {}, result |-> "none"]

InitPermission ==
    /\ requests = EmptyMap
    /\ timeoutMs = MaxWindow
    /\ promises = <<>>
    /\ now = 0
    /\ lastCall = Call("none", 0, FALSE)
    /\ pendingMessageIds = EmptyMap
    /\ nextMessageId = 1
    /\ pollPc = "idle"
    /\ lastRoute = "none"
    /\ dispatched = [r \in ReqIds |-> 0]
    /\ lastAnswer = "none"
    /\ pc = [r \in ReqIds |-> "idle"]
    /\ nativeId = [r \in ReqIds |-> 0]
    /\ hPromise = [r \in ReqIds |-> 0]
    /\ hResult = [r \in ReqIds |-> NoResult]
    /\ edit = [r \in ReqIds |-> NoEdit]
    /\ hook = [r \in ReqIds |-> HookRunning]
    /\ active = TRUE

\* TelegramChannel's fields as declared, and a service holding no update
InitLoop ==
    /\ pollingActive = FALSE
    /\ lastUpdateId = 0
    /\ pollAbortController = 0
    /\ loops = <<>>
    /\ svcUpdates = 0
    /\ handled = [i \in 1..MaxUpdates |-> 0]
    /\ stoppedWith = {}

InitParse ==
    /\ text = <<>>
    /\ parsed = NotParsed
    /\ parsedAgain = NotParsed

\* no activation yet
InitPlugin ==
    /\ config = NoConfig
    /\ plugin = NotActivated

\* a controller constructed enabled over an empty state file, no call yet
InitRemote ==
    /\ enabled = TRUE
    /\ activeSessionId = <<>>
    /\ persisted = <<>>
    /\ calls = <<>>

\* a handler constructed with the schema's default flags, no call yet
InitNotify ==
    /\ notifyConfig = [onPermission |-> TRUE, onComplete |-> TRUE,
                       onError |-> TRUE, onIdle |-> FALSE]
    /\ notifyCalls = <<>>

\* no listing yet
InitList ==
    /\ listInput = NoListing
    /\ listOutput = NotListed

\* no state file, and a service whose updates' content is not looked at
InitDelivery ==
    /\ cursorCheckpoint = 0
    /\ svcContent = <<>>

InitOther == InitNotify /\ InitList /\ InitDelivery

Init == InitPermission /\ InitLoop /\ InitParse /\ InitPlugin /\ InitRemote /\ InitOther

(***************************************************************************)
(* The store on its own: its public methods called in any order with any   *)
(* id, its timers, and the clock.                                          *)
(***************************************************************************)
StoreBecomes(after, call) ==
    /\ requests' = after.requests
    /\ promises' = after.promises
    /\ lastCall' = call

Add(id) ==
    /\ Len(promises) < MaxPromises
    /\ now + timeoutMs <= MaxTime
    /\ StoreBecomes(add(requests, promises, id, timeoutMs, now), Call("add", id, TRUE))
    /\ UNCHANGED <<timeoutMs, now, channelVars, handlerVars>>
    /\ UNCHANGED <<loopVars, parseVars, pluginVars, remoteVars, otherVars>>

Resolve(id, response) ==
    /\ LET after == resolve(requests, promises, id, response)
       IN StoreBecomes(after, Call("resolve", id, after.ret))
    /\ UNCHANGED <<timeoutMs, now, channelVars, handlerVars>>
    /\ UNCHANGED <<loopVars, parseVars, pluginVars, remoteVars, otherVars>>

Reject(id) ==
    /\ LET after == reject(requests, promises, id, CallerError)
       IN StoreBecomes(after, Call("reject", id, after.ret))
    /\ UNCHANGED <<timeoutMs, now, channelVars, handlerVars>>
    /\ UNCHANGED <<loopVars, parseVars, pluginVars, remoteVars, otherVars>>

Clear ==
    /\ StoreBecomes(clear(requests, promises), Call("clear", 0, TRUE))
    /\ UNCHANGED <<timeoutMs, now, channelVars, handlerVars>>
    /\ UNCHANGED <<loopVars, parseVars, pluginVars, remoteVars, otherVars>>

Timeout(p) ==
    /\ TimerDue(promises, p, now)
    /\ LET after == onTimeout(requests, promises, p)
       IN StoreBecomes(after, Call("timer", promises[p].id, after.ret))
    /\ UNCHANGED <<timeoutMs, now, channelVars, handlerVars>>
    /\ UNCHANGED <<loopVars, parseVars, pluginVars, remoteVars, otherVars>>

SetTimeoutMs(ms) ==
    /\ ms # timeoutMs
    /\ timeoutMs' = ms
    /\ lastCall' = Call("setTimeoutMs", 0, TRUE)
    /\ UNCHANGED <<requests, promises, now, channelVars, handlerVars>>
    /\ UNCHANGED <<loopVars, parseVars, pluginVars, remoteVars, otherVars>>

Tick ==
    /\ now < MaxTime
    /\ now' = now + 1
    /\ UNCHANGED <<requests, timeoutMs, promises, lastCall, channelVars, handlerVars>>
    /\ UNCHANGED <<loopVars, parseVars, pluginVars, remoteVars, otherVars>>

NextStore ==
    \/ \E id \in ReqIds : Add(id)
    \/ \E id \in ReqIds, d \in {ALLOW, DENY} : Resolve(id, d)
    \/ \E id \in ReqIds : Reject(id)
    \/ Clear
    \/ \E p \in DOMAIN promises : Timeout(p)
    \/ \E ms \in Windows : SetTimeoutMs(ms)
    \/ Tick

SpecStore == Init /\ [][NextStore]_vars

\* timers run when they are due, and time passes
FairStore ==
    /\ WF_vars(Tick)
    /\ \A p \in 1..MaxPromises : WF_vars(p \in DOMAIN promises /\ Timeout(p))

SpecStoreFair == SpecStore /\ FairStore

(***************************************************************************)
(* Vocabulary of the store's properties.                                   *)
(***************************************************************************)
Pending(p) == promises[p].st = "pending"
Settled(p) == promises[p].st # "pending"
FailedWith(p, e) == promises[p].st = "rejected" /\ promises[p].val = e
DueAt(p) == promises[p].addedAt + promises[p].window
\* another call of add used the same id
Collides(p) ==
    \E q \in DOMAIN promises : q # p /\ promises[q].id = promises[p].id
\* the promise is as it was, but for its timer having run
SameOutcome(p) ==
    /\ promises'[p].st = promises[p].st
    /\ promises'[p].val = promises[p].val
    /\ promises'[p].calls = promises[p].calls

(***************************************************************************)
(* C1.  An awaitable whose id was registered once is completed at most     *)
(* once: its resolver and rejecter are called at most once in all, a       *)
(* settled request is no longer in the store, every later resolve or       *)
(* reject of its id returns false and changes nothing, and its timer       *)
(* running later changes nothing.                                          *)
(***************************************************************************)
C1_State ==
    \A p \in DOMAIN promises :
        ~Collides(p) =>
            /\ promises[p].calls <= 1
            /\ Settled(p) => promises[p].id \notin DOMAIN requests

C1_Step ==
    \A p \in DOMAIN promises :
        (Settled(p) /\ ~Collides(p) /\ Len(promises') = Len(promises)) =>
            /\ SameOutcome(p)
            /\ \A d \in Decisions :
                   Resolve(promises[p].id, d) =>
                       lastCall'.ret = FALSE /\ UNCHANGED <<requests, promises>>
            /\ Reject(promises[p].id) =>
                   lastCall'.ret = FALSE /\ UNCHANGED <<requests, promises>>
            /\ Timeout(p) => UNCHANGED requests

C1_CompletedAtMostOnce == []C1_State /\ [][C1_Step]_vars

\* resolved first; then the timer ran; then a reject of the id returned false
C1_Witness ==
    \E p \in DOMAIN promises :
        /\ ~Collides(p)
        /\ promises[p].st = "fulfilled"
        /\ promises[p].fired
        /\ promises[p].calls = 1
        /\ lastCall = Call("reject", promises[p].id, FALSE)


(***************************************************************************)
(* C3.  With timers that run when due, every awaitable add returned for    *)
(* an id no other call of add used is eventually completed.                *)
(***************************************************************************)
C3_EventuallyCompleted ==
    \A p \in 1..MaxPromises :
        (p \in DOMAIN promises) ~>
            (p \in DOMAIN promises /\ (Settled(p) \/ Collides(p)))

\* two requests with distinct ids: one timed out, the other failed by clear
C3_Witness ==
    \E p, q \in DOMAIN promises :
        /\ promises[p].id # promises[q].id
        /\ FailedWith(p, TimeoutError)
        /\ FailedWith(q, ClearedError)

(***************************************************************************)
(* C4.  clear() fails every awaitable of the store with 'Store cleared'    *)
(* and leaves the store empty; the timer of a request failed so, if its    *)
(* id was registered once, changes nothing when it runs afterwards.        *)
(***************************************************************************)
C4_Step ==
    /\ Clear =>
        /\ requests' = EmptyMap
        /\ \A id \in DOMAIN requests :
               /\ Pending(requests[id])
               /\ promises'[requests[id]].st = "rejected"
               /\ promises'[requests[id]].val = ClearedError
    /\ \A p \in DOMAIN promises :
           (FailedWith(p, ClearedError) /\ ~Collides(p) /\ Timeout(p)) =>
               UNCHANGED requests /\ SameOutcome(p)

C4_ClearFailsAll == [][C4_Step]_vars

\* two requests failed by one clear; the timer of one has run since
C4_Witness ==
    /\ requests = EmptyMap
    /\ \E p, q \in DOMAIN promises :
           /\ p # q
           /\ promises[p].id # promises[q].id
           /\ FailedWith(p, ClearedError) /\ promises[p].calls = 1 /\ promises[p].fired
           /\ FailedWith(q, ClearedError) /\ promises[q].calls = 1
           /\ lastCall.op = "timer"

(***************************************************************************)
(* C5.  An awaitable fails with the timeout error only by its own timer,   *)
(* at or after its window from registration; the timer, running with the   *)
(* id present, removes the id, and fails the awaitable if the id was       *)
(* registered once; and with timers that run when due, a request that is   *)
(* not resolved, rejected or cleared does fail so.                         *)
(***************************************************************************)
C5_State ==
    \A p \in DOMAIN promises :
        /\ promises[p].fired => now >= DueAt(p)
        /\ FailedWith(p, TimeoutError) => promises[p].fired

C5_Step ==
    \A p \in DOMAIN promises :
        (Timeout(p) /\ promises[p].id \in DOMAIN requests) =>
            /\ promises[p].id \notin DOMAIN requests'
            /\ lastCall'.ret = TRUE
            /\ Pending(p) => promises'[p].st = "rejected" /\ promises'[p].val = TimeoutError

C5_Live ==
    \A p \in 1..MaxPromises :
        (p \in DOMAIN promises) ~>
            /\ p \in DOMAIN promises
            /\ \/ promises[p].st = "fulfilled"
               \/ FailedWith(p, CallerError)
               \/ FailedWith(p, ClearedError)
               \/ FailedWith(p, TimeoutError) /\ now >= DueAt(p)
               \/ Collides(p)

C5_TimeoutBoundary == []C5_State /\ [][C5_Step]_vars /\ C5_Live

\* a request of the longest window failed by its timer exactly at its deadline
C5_Witness ==
    \E p \in DOMAIN promises :
        /\ FailedWith(p, TimeoutError)
        /\ promises[p].window = MaxWindow
        /\ now = DueAt(p)
        /\ lastCall = Call("timer", promises[p].id, TRUE)

(***************************************************************************)
(* C6.  resolve of an id that is not in the store returns false and        *)
(* changes nothing; resolve, reject and the timer of one id leave the      *)
(* records and the awaitables of every other id as they were.              *)
(***************************************************************************)
OthersUntouched(id) ==
    /\ \A j \in DOMAIN requests \ {id} :
           j \in DOMAIN requests' /\ requests'[j] = requests[j]
    /\ \A q \in DOMAIN promises :
           promises[q].id # id => promises'[q] = promises[q]

C6_Step ==
    \A id \in ReqIds :
        /\ \A d \in Decisions :
               (Resolve(id, d) /\ id \notin DOMAIN requests) =>
                   lastCall'.ret = FALSE /\ UNCHANGED <<requests, promises, timeoutMs, now>>
        /\ \A d \in Decisions : Resolve(id, d) => OthersUntouched(id)
        /\ Reject(id) => OthersUntouched(id)
        /\ \A p \in DOMAIN promises :
               (promises[p].id = id /\ Timeout(p)) => OthersUntouched(id)

C6_AbsentIdAndFrame == [][C6_Step]_vars

\* resolve of an absent id returned false while another id is pending
C6_Witness ==
    /\ lastCall.op = "resolve" /\ lastCall.ret = FALSE
    /\ lastCall.id \notin DOMAIN requests
    /\ \E j \in DOMAIN requests : j # lastCall.id /\ Pending(requests[j])


(***************************************************************************)
(* TelegramChannel.                                                        *)
(***************************************************************************)
MessageIds == 1..(MaxRequests + MaxForeign)

\* Inbound updates: a text message (target: the message it replies to, 0 for
\* none; text: empty for none) or a button callback (target: the message the
\* button is on, 0 for none; text: the callback data, empty for none).
Updates ==
    [kind : {"message"}, target : {0} \cup MessageIds, text : Texts]
    \cup [kind : {"callback"}, target : {0} \cup MessageIds, text : {ALLOW, DENY, <<>>}]

\* a findRequestIdByMessageId that returns the first entry of the table
findRequestIdFirstEntry(table, messageId) ==
    IF DOMAIN table # {} THEN CHOOSE r \in DOMAIN table : \A q \in DOMAIN table : r <= q
    ELSE 0

\* findRequestIdByMessageId; 0 for null.  The service gives every message
\* its own id, so at most one entry holds a given message id.
findRequestIdByMessageId(table, messageId) ==
    IF \E r \in DOMAIN table : table[r] = messageId
    THEN CHOOSE r \in DOMAIN table : table[r] = messageId
    ELSE 0

\* The request id handleUpdate / handleCallbackQuery match an update to; 0 for none
matchUpdate(table, u) ==
    IF u.kind = "callback"
    THEN IF u.target = 0 \/ u.text = <<>> THEN 0
         ELSE findRequestIdByMessageId(table, u.target)
    ELSE IF u.text # <<>> /\ u.target # 0
         THEN findRequestIdByMessageId(table, u.target)
         ELSE 0

\* sendPermissionRequest forgetting to record the message id
sendPermissionRequestForgets(table, id, messageId) == table

\* sendPermissionRequest, after the service's answer: pendingMessageIds.set
sendPermissionRequestRecords(table, id, messageId) == MapSet(table, id, messageId)

\* a sendPermissionRequest that sets the entry before it looks at the answer
sendPermissionRequestThrowsLate(table, id) == MapSet(table, id, 0)

\* sendPermissionRequest throws on a failed send: the throw comes before
\* pendingMessageIds.set
sendPermissionRequestThrows(table, id) == table

\* updateMessage deleting under the native message id instead of the request id
updateMessageDeletesNativeKey(table, id, ok) ==
    IF id \in DOMAIN table THEN MapDelete(table, table[id]) ELSE table

\* updateMessage with the delete inside the try block
updateMessageKeepsOnFailure(table, id, ok) == IF ok THEN MapDelete(table, id) ELSE table

\* updateMessage without its delete
updateMessageKeepsEntry(table, id, ok) == table

\* updateMessage emptying the table instead of deleting one entry
updateMessageClearsTable(table, id, ok) == EmptyMap

\* updateMessage, after the edit call ended (ok or not): pendingMessageIds.delete
updateMessageDeletes(table, id, ok) == MapDelete(table, id)

\* a terminal edit that shows every decision as granted
editContentAlwaysGranted(promise) ==
    IF promise.st = "rejected" THEN "timeout" ELSE "granted"

\* The content of the terminal edit for a settled awaitable
editContent(promise) ==
    IF promise.st = "rejected" THEN "timeout"
    ELSE IF promise.val = ALLOW THEN "granted"
    ELSE IF promise.val = DENY THEN "denied"
    ELSE "responded"

\* messages in the chat that are not permission requests
ForeignCount == (nextMessageId - 1) - Cardinality({r \in ReqIds : nativeId[r] # 0})

RECURSIVE SumOver(_, _)
SumOver(f, S) ==
    IF S = {} THEN 0
    ELSE LET x == CHOOSE y \in S : TRUE IN f[x] + SumOver(f, S \ {x})

DispatchedInAll == SumOver(dispatched, ReqIds)

\* handleUpdate(update), up to its first await: what it does to the channel
\* and, through the response callbacks, to the store
handleUpdate(u) ==
    /\ pollPc = "idle"
    /\ matchUpdate(pendingMessageIds, u) # 0 => DispatchedInAll < MaxDispatch
    /\ u.target < nextMessageId
    /\ LET requestId == matchUpdate(pendingMessageIds, u) IN
       IF requestId # 0
       THEN \* notifyResponse -> handleResponse -> pendingStore.resolve
            /\ LET after == resolve(requests, promises, requestId, parseResponse(u.text))
               IN StoreBecomes(after, Call("resolve", requestId, after.ret))
            /\ dispatched' = [dispatched EXCEPT ![requestId] = @ + 1]
            /\ lastRoute' = "responseCallbacks"
            /\ pollPc' = IF u.kind = "callback" THEN "answering" ELSE "idle"
            /\ lastAnswer' = IF u.kind = "callback" THEN "pending" ELSE "none"
       ELSE /\ lastRoute' = "nowhere"
            /\ lastAnswer' = "none"
            /\ UNCHANGED <<requests, promises, lastCall, dispatched, pollPc>>
    /\ UNCHANGED <<timeoutMs, now, pendingMessageIds, nextMessageId, handlerVars>>

\* the loop calls handleUpdate(u); the loop itself is not looked at here
HandleUpdate(u) ==
    /\ handleUpdate(u)
    /\ UNCHANGED <<loopVars, parseVars, pluginVars, remoteVars, otherVars>>

\* an answerCallbackQuery whose failure reaches the catch block of poll()
answerCallbackQueryThrows(ok) == IF ok THEN "idle" ELSE "backoff"

\* answerCallbackQuery: its try / catch lets no failure out, and
\* handleCallbackQuery and handleUpdate return to the receive loop
answerCallbackQueryEnds(ok) == "idle"

\* the fetch of answerCallbackQuery ended, ok or not
AnswerCallbackDone(ok) ==
    /\ pollPc = "answering"
    /\ pollPc' = answerCallbackQueryEnds(ok)
    /\ lastAnswer' = IF ok THEN "ok" ELSE "failed"
    /\ UNCHANGED <<storeVars, pendingMessageIds, nextMessageId,
                   lastRoute, dispatched, handlerVars>>
    /\ UNCHANGED <<loopVars, parseVars, pluginVars, remoteVars, otherVars>>

\* somebody posts another message in the chat
ForeignMessage ==
    /\ ForeignCount < MaxForeign
    /\ nextMessageId' = nextMessageId + 1
    /\ UNCHANGED <<storeVars, pendingMessageIds, pollPc,
                   lastRoute, dispatched, lastAnswer, handlerVars>>
    /\ UNCHANGED <<loopVars, parseVars, pluginVars, remoteVars, otherVars>>

(***************************************************************************)
(* What handlePermissionRequest hands its caller, and what the             *)
(* permission.ask hook makes of it.                                        *)
(***************************************************************************)
Returned(v) == [st |-> "returned", val |-> v]
Threw(e) == [st |-> "threw", val |-> e]

\* a handler that answers a failed awaitable by returning no decision
handlerOutcomeSwallows(promise) ==
    IF promise.st = "fulfilled" THEN Returned(promise.val) ELSE Returned(<<>>)

\* return response / throw error, for the settled responsePromise
handlerOutcome(promise) ==
    IF promise.st = "fulfilled" THEN Returned(promise.val) ELSE Threw(promise.val)

\* a hook that denies when the handler throws
hookOutcomeDeniesOnThrow(result) ==
    [st |-> "returned",
     status |-> IF result.st = "returned" /\ result.val = ALLOW THEN "allow" ELSE "deny"]

\* the hook after its await: output.status is set for allow and for deny, a
\* throw is caught and logged, and the hook returns
hookOutcome(result) ==
    [st |-> "returned",
     status |-> IF result.st = "returned" /\ result.val = ALLOW THEN "allow"
                ELSE IF result.st = "returned" /\ result.val = DENY THEN "deny"
                ELSE "unset"]

(***************************************************************************)
(* PermissionHandler.handlePermissionRequest, call r; generateId gives     *)
(* each call its own id, here r.                                           *)
(***************************************************************************)
\* the call starts: sendPermissionRequest posts sendMessage
HandlerStart(r) ==
    /\ active
    /\ pc[r] = "idle"
    /\ pc' = [pc EXCEPT ![r] = "sending"]
    /\ UNCHANGED <<storeVars, channelVars, nativeId, hPromise, hResult, edit, hook, active>>
    /\ UNCHANGED <<loopVars, parseVars, pluginVars, remoteVars, otherVars>>

\* the service takes sendMessage: the message exists and has its id
ServiceAccepts(r) ==
    /\ pc[r] = "sending"
    /\ nativeId' = [nativeId EXCEPT ![r] = nextMessageId]
    /\ nextMessageId' = nextMessageId + 1
    /\ pc' = [pc EXCEPT ![r] = "answered"]
    /\ UNCHANGED <<storeVars, pendingMessageIds, pollPc,
                   lastRoute, dispatched, lastAnswer, hPromise, hResult, edit, hook, active>>
    /\ UNCHANGED <<loopVars, parseVars, pluginVars, remoteVars, otherVars>>

\* sendMessage fails: a transport error or a not-ok answer
ServiceRefuses(r) ==
    /\ pc[r] = "sending"
    /\ pc' = [pc EXCEPT ![r] = "answered"]
    /\ UNCHANGED <<storeVars, channelVars, nativeId, hPromise, hResult, edit, hook, active>>
    /\ UNCHANGED <<loopVars, parseVars, pluginVars, remoteVars, otherVars>>

\* sendPermissionRequest resumes with the answer: it records the message id
\* and returns, or throws; a throw leaves handlePermissionRequest, whose
\* await of the send is outside its try block, and the hook resumes
SendReturns(r) ==
    /\ pc[r] = "answered"
    /\ IF nativeId[r] # 0
       THEN /\ pendingMessageIds' =
                   sendPermissionRequestRecords(pendingMessageIds, r, nativeId[r])
            /\ pc' = [pc EXCEPT ![r] = "sent"]
            /\ UNCHANGED <<hResult, hook>>
       ELSE /\ pc' = [pc EXCEPT ![r] = "done"]
            /\ hResult' = [hResult EXCEPT ![r] = Threw(SendError)]
            /\ hook' = [hook EXCEPT ![r] = hookOutcome(Threw(SendError))]
            /\ pendingMessageIds' = sendPermissionRequestThrows(pendingMessageIds, r)
    /\ UNCHANGED <<storeVars, nextMessageId, pollPc, lastRoute,
                   dispatched, lastAnswer, nativeId, hPromise, edit, active>>
    /\ UNCHANGED <<loopVars, parseVars, pluginVars, remoteVars, otherVars>>

\* handlePermissionRequest resumes after the send: pendingStore.add
HandlerAdds(r) ==
    /\ pc[r] = "sent"
    /\ now + timeoutMs <= MaxTime
    /\ StoreBecomes(add(requests, promises, r, timeoutMs, now), Call("add", r, TRUE))
    /\ hPromise' = [hPromise EXCEPT ![r] = Len(promises) + 1]
    /\ pc' = [pc EXCEPT ![r] = "waiting"]
    /\ UNCHANGED <<timeoutMs, now, channelVars, nativeId, hResult, edit, hook, active>>
    /\ UNCHANGED <<loopVars, parseVars, pluginVars, remoteVars, otherVars>>

\* responsePromise is settled: handlePermissionRequest resumes and calls
\* updateMessage, which posts editMessageText if the table has the id
HandlerResumes(r) ==
    /\ pc[r] = "waiting"
    /\ Settled(hPromise[r])
    /\ IF r \in DOMAIN pendingMessageIds /\ pendingMessageIds[r] # 0
       THEN /\ edit' = [edit EXCEPT ![r] = [n |-> @.n + 1,
                                            content |-> editContent(promises[hPromise[r]]),
                                            ok |-> "posted"]]
            /\ pc' = [pc EXCEPT ![r] = "editing"]
            /\ UNCHANGED <<hResult, hook>>
       ELSE /\ pc' = [pc EXCEPT ![r] = "done"]
            /\ hResult' = [hResult EXCEPT ![r] = handlerOutcome(promises[hPromise[r]])]
            /\ hook' = [hook EXCEPT ![r] = hookOutcome(handlerOutcome(promises[hPromise[r]]))]
            /\ UNCHANGED edit
    /\ UNCHANGED <<storeVars, channelVars, nativeId, hPromise, active>>
    /\ UNCHANGED <<loopVars, parseVars, pluginVars, remoteVars, otherVars>>

\* editMessageText ended, ok or not: updateMessage deletes the entry and
\* returns; handlePermissionRequest returns the decision or rethrows, and the
\* hook that awaits it resumes
EditReturns(r, ok) ==
    /\ pc[r] = "editing"
    /\ edit' = [edit EXCEPT ![r].ok = IF ok THEN "ok" ELSE "failed"]
    /\ pendingMessageIds' = updateMessageDeletes(pendingMessageIds, r, ok)
    /\ pc' = [pc EXCEPT ![r] = "done"]
    /\ hResult' = [hResult EXCEPT ![r] = handlerOutcome(promises[hPromise[r]])]
    /\ hook' = [hook EXCEPT ![r] = hookOutcome(handlerOutcome(promises[hPromise[r]]))]
    /\ UNCHANGED <<storeVars, nextMessageId, pollPc, lastRoute,
                   dispatched, lastAnswer, nativeId, hPromise, active>>
    /\ UNCHANGED <<loopVars, parseVars, pluginVars, remoteVars, otherVars>>

\* deactivate(): pendingStore.clear(); no hook reaches the handler afterwards
Deactivate ==
    /\ active
    /\ active' = FALSE
    /\ StoreBecomes(clear(requests, promises), Call("clear", 0, TRUE))
    /\ UNCHANGED <<timeoutMs, now, channelVars, pc, nativeId, hPromise, hResult, edit, hook>>
    /\ UNCHANGED <<loopVars, parseVars, pluginVars, remoteVars, otherVars>>

Next ==
    \/ \E r \in ReqIds : HandlerStart(r)
    \/ \E r \in ReqIds : ServiceAccepts(r)
    \/ \E r \in ReqIds : ServiceRefuses(r)
    \/ \E r \in ReqIds : SendReturns(r)
    \/ \E r \in ReqIds : HandlerAdds(r)
    \/ \E r \in ReqIds : HandlerResumes(r)
    \/ \E r \in ReqIds, ok \in BOOLEAN : EditReturns(r, ok)
    \/ \E u \in Updates : HandleUpdate(u)
    \/ \E ok \in BOOLEAN : AnswerCallbackDone(ok)
    \/ ForeignMessage
    \/ \E p \in DOMAIN promises : Timeout(p)
    \/ Deactivate
    \/ Tick

Spec == Init /\ [][Next]_vars


(***************************************************************************)
(* Vocabulary of the channel's and the handler's properties.               *)
(***************************************************************************)
\* sendPermissionRequest has returned the call's message id and the terminal
\* edit has not ended
SentNotFinal(r) == pc[r] \in {"sent", "waiting", "editing"}
\* the store's awaitable of call r is not settled (or not created yet)
Awaiting(r) == pc[r] = "sent" \/ (pc[r] = "waiting" /\ Pending(hPromise[r]))
\* a text reply to the message of call r
IsReplyTo(u, r) == u.kind = "message" /\ u.text # <<>> /\ u.target = nativeId[r]

(***************************************************************************)
(* C2.  Once sendPermissionRequest has returned for a request, a reply to  *)
(* its message handled at any later moment while the request is still      *)
(* unanswered completes the request's awaitable with the decision          *)
(* normalized from the reply's text.                                       *)
(***************************************************************************)
C2_RoundTrip ==
    [][\A r \in ReqIds, u \in Updates :
          (Awaiting(r) /\ IsReplyTo(u, r) /\ HandleUpdate(u)) =>
              /\ hPromise'[r] # 0
              /\ promises'[hPromise'[r]].st = "fulfilled"
              /\ promises'[hPromise'[r]].val = parseResponse(u.text)]_vars

(***************************************************************************)
(* C7.  From the return of sendPermissionRequest until the terminal edit   *)
(* has ended, the correlation table maps the request's id to the message   *)
(* id the service assigned, and that message id is matched to the request. *)
(***************************************************************************)
C7_RegisteredOnReturn ==
    \A r \in ReqIds :
        SentNotFinal(r) =>
            /\ r \in DOMAIN pendingMessageIds
            /\ pendingMessageIds[r] = nativeId[r]
            /\ findRequestIdByMessageId(pendingMessageIds, nativeId[r]) = r

\* one send has just returned while another request is already registered
C7_Witness ==
    \E r, q \in ReqIds :
        /\ pc[r] = "sent" /\ pc[q] = "waiting"
        /\ pendingMessageIds[r] = nativeId[r]
        /\ pendingMessageIds[q] = nativeId[q]

(***************************************************************************)
(* C8.  When updateMessage has ended for an id that was in the table, the  *)
(* entry is gone whether the edit succeeded or failed, and the caller got  *)
(* the outcome of its awaitable, not a failure of the edit.                *)
(***************************************************************************)
C8_EditRemovesEntry ==
    \A r \in ReqIds :
        (pc[r] = "done" /\ edit[r].ok \in {"ok", "failed"}) =>
            /\ r \notin DOMAIN pendingMessageIds
            /\ hResult[r].val = promises[hPromise[r]].val
            /\ hResult[r].st = "returned" <=> promises[hPromise[r]].st = "fulfilled"

\* the edit failed, the entry is gone and the caller has its decision; the
\* other request's entry is still there
C8_Witness ==
    \E r \in ReqIds :
        /\ pc[r] = "done" /\ edit[r].ok = "failed"
        /\ r \notin DOMAIN pendingMessageIds
        /\ hResult[r] = [st |-> "returned", val |-> ALLOW]
        /\ \E q \in DOMAIN pendingMessageIds : q # r

(***************************************************************************)
(* C9, as claimed.  At most one inbound update is ever matched to a        *)
(* request and dispatched to the response callbacks.                       *)
(***************************************************************************)
C9_MatchedOnce == \A r \in ReqIds : dispatched[r] <= 1

(***************************************************************************)
(* C9, amended.  At most one inbound update ever completes a request: an   *)
(* update matched to a request whose awaitable is settled is dispatched    *)
(* and changes nothing in the store, and once the terminal edit has ended  *)
(* no update is matched to the request.                                    *)
(***************************************************************************)
C9_State ==
    \A r \in ReqIds : hPromise[r] # 0 => promises[hPromise[r]].calls <= 1

C9_Step ==
    \A r \in ReqIds :
        /\ pc[r] = "done" => dispatched'[r] = dispatched[r]
        /\ (dispatched'[r] > dispatched[r] /\ hPromise[r] # 0 /\ Settled(hPromise[r])) =>
               UNCHANGED <<requests, promises>> /\ lastCall'.ret = FALSE

C9_ResolvedOnce == []C9_State /\ [][C9_Step]_vars

\* two updates were matched to a request; the first completed it, the second
\* found nothing to resolve; the terminal edit has ended
C9_Witness ==
    \E r \in ReqIds :
        /\ dispatched[r] = 2
        /\ pc[r] = "done"
        /\ promises[hPromise[r]].st = "fulfilled"
        /\ promises[hPromise[r]].calls = 1

(***************************************************************************)
(* C10.  Every inbound update that is not matched to a request is          *)
(* forwarded to the Remote Dispatcher.                                     *)
(***************************************************************************)
C10_UnmatchedForwarded ==
    lastRoute \in {"none", "responseCallbacks", "remoteDispatcher"}

(***************************************************************************)
(* C11.  handlePermissionRequest throws nothing but the timeout error and  *)
(* the store-cleared error of the store.                                   *)
(***************************************************************************)
C11_FailsOnlyByStore ==
    \A r \in ReqIds :
        hResult[r].st = "threw" => hResult[r].val \in {TimeoutError, ClearedError}

(***************************************************************************)
(* C12.  A call whose awaitable was completed with decision d has, when it *)
(* ends, made one terminal edit, showing granted for allow, denied for     *)
(* deny and responded for any other text, and has returned d itself; until *)
(* that edit has ended the call has returned nothing.                      *)
(***************************************************************************)
ResolvedWith(r, d) ==
    /\ hPromise[r] # 0
    /\ promises[hPromise[r]].st = "fulfilled"
    /\ promises[hPromise[r]].val = d

C12_EditThenDecision ==
    \A r \in ReqIds :
        /\ edit[r].n <= 1
        /\ pc[r] # "done" => hResult[r] = NoResult
        /\ \A d \in Decisions :
               (ResolvedWith(r, d) /\ pc[r] \in {"editing", "done"}) =>
                   /\ edit[r].n = 1
                   /\ edit[r].content = IF d = ALLOW THEN "granted"
                                        ELSE IF d = DENY THEN "denied"
                                        ELSE "responded"
                   /\ pc[r] = "done" =>
                          /\ edit[r].ok \in {"ok", "failed"}
                          /\ hResult[r] = [st |-> "returned", val |-> d]

\* one call returned deny after a denied edit, the other a custom text after
\* a responded edit
C12_Witness ==
    \E r, q \in ReqIds :
        /\ pc[r] = "done" /\ ResolvedWith(r, DENY)
        /\ edit[r].content = "denied" /\ hResult[r].val = DENY
        /\ pc[q] = "done" /\ ResolvedWith(q, <<"D", "o">>)
        /\ edit[q].content = "responded" /\ hResult[q].val = <<"D", "o">>

(***************************************************************************)
(* C13.  A call whose awaitable failed, by its timer or by clear, has,     *)
(* when it ends, made one terminal edit saying that no response was        *)
(* received and has thrown the awaitable's error; it has returned no       *)
(* decision.                                                               *)
(***************************************************************************)
FailedBy(r, e) ==
    /\ hPromise[r] # 0
    /\ promises[hPromise[r]].st = "rejected"
    /\ promises[hPromise[r]].val = e

C13_EditThenRethrow ==
    \A r \in ReqIds, e \in {TimeoutError, ClearedError} :
        (FailedBy(r, e) /\ pc[r] \in {"editing", "done"}) =>
            /\ edit[r].n = 1
            /\ edit[r].content = "timeout"
            /\ pc[r] = "editing" => hResult[r] = NoResult
            /\ pc[r] = "done" =>
                   /\ edit[r].ok \in {"ok", "failed"}
                   /\ hResult[r] = [st |-> "threw", val |-> e]

\* one call rethrew the timeout, the other the store-cleared error
C13_Witness ==
    \E r, q \in ReqIds :
        /\ pc[r] = "done" /\ FailedBy(r, TimeoutError)
        /\ hResult[r] = [st |-> "threw", val |-> TimeoutError]
        /\ pc[q] = "done" /\ FailedBy(q, ClearedError)
        /\ hResult[q] = [st |-> "threw", val |-> ClearedError]
        /\ edit[r].content = "timeout" /\ edit[q].content = "timeout"

(***************************************************************************)
(* C14.  The permission.ask hook always returns; it leaves output.status   *)
(* at allow exactly when its call returned allow, at deny exactly when its *)
(* call returned deny, and unset when the call returned another text or    *)
(* threw (timeout, store cleared, send failure) and while the call runs.   *)
(***************************************************************************)
C14_HookStatus ==
    \A r \in ReqIds :
        /\ hook[r].st \in {"running", "returned"}
        /\ hook[r].st = "returned" <=> pc[r] = "done"
        /\ hook[r].status = "allow" <=> hResult[r] = [st |-> "returned", val |-> ALLOW]
        /\ hook[r].status = "deny" <=> hResult[r] = [st |-> "returned", val |-> DENY]
        /\ hook[r].status \in {"allow", "deny", "unset"}

\* one hook ended unset after a send failure, the other unset after a custom text
C14_Witness ==
    \E r, q \in ReqIds :
        /\ hResult[r] = [st |-> "threw", val |-> SendError]
        /\ hook[r] = [st |-> "returned", status |-> "unset"]
        /\ hResult[q] = [st |-> "returned", val |-> <<"D", "o">>]
        /\ hook[q] = [st |-> "returned", status |-> "unset"]


(***************************************************************************)
(* Decision normalization on its own: parseResponse applied to every text  *)
(* of up to MaxTextLen characters and to the longer words in every mix of  *)
(* cases with blanks around them, and then applied to its own result.      *)
(***************************************************************************)
Alphabet ==
    {Upper[i] : i \in 1..Len(Upper)} \cup {Lower[i] : i \in 1..Len(Lower)}
        \cup {Blank, CheckGlyph, CrossGlyph}

ShortTexts == UNION {[1..n -> Alphabet] : n \in 0..MaxTextLen}

\* the upper-case form of a lower-case letter; every other character as it is
toUpperChar(c) ==
    IF \E i \in 1..Len(Lower) : Lower[i] = c
    THEN Upper[CHOOSE i \in 1..Len(Lower) : Lower[i] = c]
    ELSE c

\* the word in every mix of upper and lower case
CaseVariants(w) ==
    {[i \in 1..Len(w) |-> IF i \in S THEN toUpperChar(w[i]) ELSE w[i]] :
        S \in SUBSET (1..Len(w))}

Blanks(n) == [i \in 1..n |-> Blank]

Padded(v) == {Blanks(l) \o v \o Blanks(r) : l \in 0..MaxPad, r \in 0..MaxPad}

\* allow and deny, and two words that are near them and are neither
LongWords ==
    {ALLOW, DENY, <<"a", "l", "l", "o", "y">>, <<"d", "e", "n", "y", "s">>}

LongTexts == UNION {Padded(v) : v \in UNION {CaseVariants(w) : w \in LongWords}}

TextInputs == ShortTexts \cup LongTexts

InitParseText ==
    /\ InitOther
    /\ InitPermission
    /\ InitLoop
    /\ InitPlugin
    /\ InitRemote
    /\ text \in TextInputs
    /\ parsed = NotParsed
    /\ parsedAgain = NotParsed

\* parseResponse(text)
Parse ==
    /\ parsed = NotParsed
    /\ parsed' = parseResponse(text)
    /\ UNCHANGED <<permissionVars, loopVars, pluginVars, remoteVars, text, parsedAgain, otherVars>>

\* parseResponse of the decision parseResponse gave
ParseAgain ==
    /\ parsed # NotParsed
    /\ parsedAgain = NotParsed
    /\ parsedAgain' = parseResponse(parsed)
    /\ UNCHANGED <<permissionVars, loopVars, pluginVars, remoteVars, text, parsed, otherVars>>

NextParse == Parse \/ ParseAgain

SpecParse == InitParseText /\ [][NextParse]_vars

(***************************************************************************)
(* Vocabulary of normalization, stated without toLowerCase and trim.       *)
(***************************************************************************)
AllowWords == {ALLOW, <<"y", "e", "s">>, <<"y">>, <<CheckGlyph>>}
DenyWords == {DENY, <<"n", "o">>, <<"n">>, <<CrossGlyph>>}

\* t is s with blanks before and after it
IsPaddingOf(t, s) ==
    \E l \in 0..Len(t) :
        /\ l + Len(s) <= Len(t)
        /\ \A i \in 1..Len(t) :
               IF i > l /\ i <= l + Len(s) THEN t[i] = s[i - l] ELSE t[i] = Blank

\* v is the word w in some mix of cases
IsCaseVariantOf(v, w) ==
    /\ Len(v) = Len(w)
    /\ \A i \in 1..Len(w) : v[i] = w[i] \/ v[i] = toUpperChar(w[i])

\* t is one of the words, in any mix of cases, with blanks around it
IsWordOf(t, words) ==
    \E l \in 0..Len(t), n \in 0..Len(t) :
        /\ l + n <= Len(t)
        /\ IsPaddingOf(t, SubSeq(t, l + 1, l + n))
        /\ \E w \in words : IsCaseVariantOf(SubSeq(t, l + 1, l + n), w)

NoBlankAtEnds(s) == s = <<>> \/ (Head(s) # Blank /\ s[Len(s)] # Blank)

(***************************************************************************)
(* C15.  parseResponse gives allow exactly for allow, yes, y and the       *)
(* affirmative glyph, and deny exactly for deny, no, n and the negative    *)
(* glyph, each in any mix of cases and with any blanks around it.          *)
(***************************************************************************)
C15_WordsAndGlyphs ==
    parsed # NotParsed =>
        /\ parsed = ALLOW <=> IsWordOf(text, AllowWords)
        /\ parsed = DENY <=> IsWordOf(text, DenyWords)

\* allow in mixed case with blanks around it was normalized to allow
C15_Witness ==
    /\ text = <<Blank, "A", "l", "L", "o", "W", Blank>>
    /\ parsed = ALLOW

(***************************************************************************)
(* C16, as claimed.  A text that is none of the allow and deny words is    *)
(* the decision, exactly as it was sent.                                   *)
(***************************************************************************)
C16_Verbatim ==
    (parsed # NotParsed /\ ~IsWordOf(text, AllowWords \cup DenyWords)) =>
        parsed = text

(***************************************************************************)
(* C16, amended.  A text that is none of the allow and deny words is the   *)
(* decision with the blanks before and after it removed and nothing else   *)
(* changed: the case of its letters and the blanks inside it stay.         *)
(***************************************************************************)
C16_TrimmedOnly ==
    (parsed # NotParsed /\ ~IsWordOf(text, AllowWords \cup DenyWords)) =>
        /\ IsPaddingOf(text, parsed)
        /\ NoBlankAtEnds(parsed)

\* a custom text with a blank before it and an upper-case letter came out
\* without the blank and with the letter as typed
C16_Witness ==
    /\ text = <<Blank, "D", "o">>
    /\ parsed = <<"D", "o">>

(***************************************************************************)
(* C17.  parseResponse applied to a decision it gave gives that decision.  *)
(***************************************************************************)
C17_Idempotent ==
    parsedAgain # NotParsed => parsedAgain = parsed

\* YES gave allow, and allow gave allow
C17_Witness ==
    /\ text = <<"Y", "E", "S">>
    /\ parsed = ALLOW
    /\ parsedAgain = ALLOW


(***************************************************************************)
(* The receive loop of TelegramChannel: start, stop, poll and getUpdates,  *)
(* with the messaging service's queue of updates.  A loop is one call of   *)
(* poll(); its record holds where it stands (pc), whether the signal of    *)
(* its receive call in flight was aborted, whether stop() was called while *)
(* it ran, the offset of its receive call, the updates of its batch not    *)
(* yet handled, and its failed receive calls.  What handleUpdate does with *)
(* an update is HandleUpdate above; here an update is its update_id.       *)
(***************************************************************************)
Min(a, b) == IF a < b THEN a ELSE b

\* the answer of the service to getUpdates?offset: the updates it holds from
\* the offset on, in the order of their ids
getUpdatesResult(held, offset) ==
    LET first == IF offset < 1 THEN 1 ELSE offset IN
    [i \in 1..(IF held >= first THEN held - first + 1 ELSE 0) |-> first + i - 1]

\* the first statements of an iteration: a new AbortController and the
\* receive call, with the cursor as its offset
issueReceive(loop, cursor) ==
    [loop EXCEPT !.pc = "fetching", !.aborted = FALSE, !.offset = cursor, !.batch = <<>>]

\* while (this.pollingActive): another iteration, or the end of poll()
pollLoopHead(loop, isActive, cursor) ==
    IF isActive THEN issueReceive(loop, cursor)
    ELSE [loop EXCEPT !.pc = "ended", !.batch = <<>>]

\* a catch block that leaves the loop on every error
afterReceiveFailureEnds(loop) == [loop EXCEPT !.pc = "ended"]

\* the catch block for an error that is not an AbortError: log, sleep(5000)
afterReceiveFailure(loop) ==
    [loop EXCEPT !.pc = "sleeping", !.failures = Min(@ + 1, MaxFailures)]

\* poll() goes on after an await: the next update of the batch, if any
\* (the cursor moves past it and handleUpdate is called), or the loop head
LoopGoesOn(l, batch) ==
    IF batch # <<>>
    THEN /\ lastUpdateId' = Head(batch) + 1
         /\ handled' = [handled EXCEPT ![Head(batch)] = Min(@ + 1, MaxHandled)]
         /\ loops' = [loops EXCEPT ![l] = [@ EXCEPT !.pc = "handling", !.batch = Tail(batch)]]
         /\ UNCHANGED pollAbortController
    ELSE /\ loops' = [loops EXCEPT ![l] = pollLoopHead(@, pollingActive, lastUpdateId)]
         /\ pollAbortController' = IF pollingActive THEN l ELSE pollAbortController
         /\ UNCHANGED <<lastUpdateId, handled>>

\* start(): pollingActive = true; poll() runs up to its first await.
\* start() does not look whether a loop is running already.
Start ==
    /\ Len(loops) < MaxStarts
    /\ pollingActive' = TRUE
    /\ loops' = Append(loops, issueReceive([pc |-> "new", aborted |-> FALSE, stopped |-> FALSE,
                                             offset |-> 0, batch |-> <<>>, failures |-> 0],
                                            lastUpdateId))
    /\ pollAbortController' = Len(loops) + 1
    /\ UNCHANGED <<lastUpdateId, svcUpdates, handled, stoppedWith, permissionVars, parseVars,
                   pluginVars, remoteVars, otherVars>>

\* a stop() that fails what the store holds
stopRejectsPending(reqs, ps) == clear(reqs, ps)

\* the store after stop(): no statement of stop() reaches the store
stop(reqs, ps) == After(reqs, ps, TRUE)

\* stop(): pollingActive = false; the controller in the field is aborted
\* and the field set to null; the table pendingMessageIds is not touched
Stop ==
    /\ pollingActive
    /\ pollingActive' = FALSE
    /\ loops' = [l \in DOMAIN loops |->
                    [loops[l] EXCEPT !.stopped = @ \/ loops[l].pc # "ended",
                                     !.aborted = @ \/ l = pollAbortController]]
    /\ pollAbortController' = 0
    /\ requests' = stop(requests, promises).requests
    /\ promises' = stop(requests, promises).promises
    /\ stoppedWith' = DOMAIN requests
    /\ UNCHANGED <<timeoutMs, now, lastCall, channelVars, handlerVars>>
    /\ UNCHANGED <<lastUpdateId, svcUpdates, handled, parseVars, pluginVars, remoteVars, otherVars>>

\* the receive call of loop l is answered ok: the batch is the result
LoopReceives(l) ==
    /\ loops[l].pc = "fetching"
    /\ ~loops[l].aborted
    /\ LoopGoesOn(l, getUpdatesResult(svcUpdates, loops[l].offset))
    /\ UNCHANGED <<pollingActive, svcUpdates, stoppedWith, permissionVars, parseVars,
                   pluginVars, remoteVars, otherVars>>

\* the receive call of loop l fails: a network error or an answer not ok
ReceiveFails(l) ==
    /\ loops[l].pc = "fetching"
    /\ ~loops[l].aborted
    /\ loops' = [loops EXCEPT ![l] = afterReceiveFailure(@)]
    /\ UNCHANGED <<pollingActive, lastUpdateId, pollAbortController, svcUpdates,
                   handled, stoppedWith, permissionVars, parseVars,
                   pluginVars, remoteVars, otherVars>>

\* the receive call of loop l rejects with AbortError: break
ReceiveAborted(l) ==
    /\ loops[l].pc = "fetching"
    /\ loops[l].aborted
    /\ loops' = [loops EXCEPT ![l].pc = "ended"]
    /\ UNCHANGED <<pollingActive, lastUpdateId, pollAbortController, svcUpdates,
                   handled, stoppedWith, permissionVars, parseVars,
                   pluginVars, remoteVars, otherVars>>

\* handleUpdate has returned to loop l
LoopHandled(l) ==
    /\ loops[l].pc = "handling"
    /\ LoopGoesOn(l, loops[l].batch)
    /\ UNCHANGED <<pollingActive, svcUpdates, stoppedWith, permissionVars, parseVars,
                   pluginVars, remoteVars, otherVars>>

\* sleep(5000) of loop l is over
LoopWakes(l) ==
    /\ loops[l].pc = "sleeping"
    /\ LoopGoesOn(l, <<>>)
    /\ UNCHANGED <<pollingActive, svcUpdates, stoppedWith, permissionVars, parseVars,
                   pluginVars, remoteVars, otherVars>>

\* the service gets an update for the bot
NewUpdate ==
    /\ svcUpdates < MaxUpdates
    /\ svcUpdates' = svcUpdates + 1
    /\ UNCHANGED <<pollingActive, lastUpdateId, pollAbortController, loops,
                   handled, stoppedWith, permissionVars, parseVars,
                   pluginVars, remoteVars, otherVars>>

NextPoll ==
    \/ Start
    \/ Stop
    \/ \E l \in DOMAIN loops : LoopReceives(l)
    \/ \E l \in DOMAIN loops : ReceiveFails(l)
    \/ \E l \in DOMAIN loops : ReceiveAborted(l)
    \/ \E l \in DOMAIN loops : LoopHandled(l)
    \/ \E l \in DOMAIN loops : LoopWakes(l)
    \/ NewUpdate

SpecPoll == Init /\ [][NextPoll]_vars

\* the timer of sleep(5000) runs
FairPoll == \A l \in 1..MaxStarts : WF_vars(l \in DOMAIN loops /\ LoopWakes(l))

SpecPollFair == SpecPoll /\ FairPoll


(***************************************************************************)
(* C18.  A loop that ran when stop() was called issues no receive call     *)
(* afterwards: the only receive call it can have in flight is the one      *)
(* stop() cancelled.                                                       *)
(***************************************************************************)
C18_StopEndsLoop ==
    \A l \in DOMAIN loops :
        (loops[l].stopped /\ loops[l].pc = "fetching") => loops[l].aborted

(***************************************************************************)
(* C19.  A failed receive call never ends the loop: the loop sleeps, and   *)
(* when the sleep is over with the channel started it issues another       *)
(* receive call; a loop has ended only if stop() was called while it ran;  *)
(* and, the sleep timer running, every failed receive call is followed by  *)
(* another receive call or by the loop's end after a stop().               *)
(***************************************************************************)
C19_State ==
    \A l \in DOMAIN loops : loops[l].pc = "ended" => loops[l].stopped

C19_Step ==
    \A l \in DOMAIN loops :
        /\ ReceiveFails(l) => loops'[l].pc = "sleeping"
        /\ (LoopWakes(l) /\ pollingActive) =>
               /\ loops'[l].pc = "fetching"
               /\ loops'[l].offset = lastUpdateId
               /\ ~loops'[l].aborted

C19_Live ==
    \A l \in 1..MaxStarts :
        (l \in DOMAIN loops /\ loops[l].pc = "sleeping") ~>
            /\ l \in DOMAIN loops
            /\ \/ loops[l].pc = "fetching"
               \/ loops[l].pc = "ended" /\ loops[l].stopped

C19_FailureRetried == []C19_State /\ [][C19_Step]_vars /\ C19_Live

\* a loop whose receive call failed has slept and has a receive call in
\* flight again; no stop() was called
C19_Witness ==
    \E l \in DOMAIN loops :
        /\ loops[l].failures >= 1
        /\ loops[l].pc = "fetching"
        /\ ~loops[l].stopped
        /\ pollingActive

(***************************************************************************)
(* C20.  The cursor never decreases, and no update is handled twice.       *)
(***************************************************************************)
C20_CursorAndOnce ==
    /\ [](\A i \in 1..MaxUpdates : handled[i] <= 1)
    /\ [][lastUpdateId' >= lastUpdateId]_vars


(***************************************************************************)
(* C22.  A delivery failure while answering a button callback or while     *)
(* finalizing a message is swallowed: the receive loop is back at its next *)
(* update, neither ended nor in its backoff, the store and the table are   *)
(* as the dispatch left them, so the request resolved by the callback      *)
(* stays resolved with its decision, and a failed terminal edit leaves the *)
(* loop alone and hands the settled decision to the caller.                *)
(***************************************************************************)
\* the callback just handled resolved a request of the store with its decision
CallbackResolved(r) ==
    /\ lastCall = Call("resolve", r, TRUE)
    /\ hPromise[r] \in DOMAIN promises
    /\ promises[hPromise[r]].st = "fulfilled"
    /\ promises[hPromise[r]].val \in Decisions

C22_DeliveryFailureSwallowed ==
    /\ [](pollPc \in {"idle", "answering"})
    /\ [][AnswerCallbackDone(FALSE) =>
            /\ pollPc' = "idle"
            /\ UNCHANGED <<requests, promises, pendingMessageIds>>
            /\ \A r \in ReqIds : CallbackResolved(r) => CallbackResolved(r)']_vars
    /\ [][\A r \in ReqIds : EditReturns(r, FALSE) =>
            /\ UNCHANGED <<pollPc, lastRoute, requests, promises>>
            /\ promises[hPromise[r]].st = "fulfilled" =>
                   hResult'[r] = Returned(promises[hPromise[r]].val)]_vars

\* the answer to a callback failed after the callback had resolved a request,
\* and the loop is at its next update
C22_Witness ==
    /\ lastAnswer = "failed"
    /\ pollPc = "idle"
    /\ \E r \in ReqIds : CallbackResolved(r)

\* a terminal edit failed and the caller has the decision
C22_WitnessEdit ==
    \E r \in ReqIds :
        /\ edit[r].ok = "failed"
        /\ hResult[r] \in {Returned(ALLOW), Returned(DENY)}


(***************************************************************************)
(* stop() beside the permission requests: the channel was started by the   *)
(* activation, its loop is in its first receive call, and stop() may be    *)
(* called at any moment, with requests pending or not.  The foreign        *)
(* traffic of the chat is left out here.                                   *)
(***************************************************************************)
InitStarted ==
    /\ InitOther
    /\ InitPermission
    /\ pollingActive = TRUE
    /\ lastUpdateId = 0
    /\ pollAbortController = 1
    /\ loops = <<issueReceive([pc |-> "new", aborted |-> FALSE, stopped |-> FALSE,
                               offset |-> 0, batch |-> <<>>, failures |-> 0], 0)>>
    /\ svcUpdates = 0
    /\ handled = [i \in 1..MaxUpdates |-> 0]
    /\ stoppedWith = {}
    /\ InitParse
    /\ InitPlugin
    /\ InitRemote

NextStopped ==
    \/ \E r \in ReqIds : HandlerStart(r)
    \/ \E r \in ReqIds : ServiceAccepts(r)
    \/ \E r \in ReqIds : SendReturns(r)
    \/ \E r \in ReqIds : HandlerAdds(r)
    \/ \E r \in ReqIds : HandlerResumes(r)
    \/ \E r \in ReqIds, ok \in BOOLEAN : EditReturns(r, ok)
    \/ \E u \in Updates : HandleUpdate(u)
    \/ \E ok \in BOOLEAN : AnswerCallbackDone(ok)
    \/ \E p \in DOMAIN promises : Timeout(p)
    \/ Deactivate
    \/ Tick
    \/ Stop

SpecStopped == InitStarted /\ [][NextStopped]_vars


(***************************************************************************)
(* C21.  stop() changes neither the pending-request store nor the          *)
(* correlation table: a call of stop() leaves the map of requests, every   *)
(* awaitable with its timer, the timeout and the table as they were; a     *)
(* request pending at that call is afterwards pending, answered, or failed *)
(* by its own timer or by clear, and an awaitable never fails otherwise.   *)
(***************************************************************************)

C21_StopStep ==
    [][Stop => UNCHANGED <<requests, promises, timeoutMs, pendingMessageIds>>]_vars

C21_FailsByTimerOrClear ==
    \A p \in DOMAIN promises :
        promises[p].st = "rejected" =>
            \/ promises[p].val = TimeoutError /\ promises[p].fired /\ now >= DueAt(p)
            \/ promises[p].val = ClearedError /\ ~active

Channels == {"telegram", "slack", "discord"}
Notifications == [onPermission : BOOLEAN, onComplete : BOOLEAN,
                  onError : BOOLEAN, onIdle : BOOLEAN]
Configs ==
    {NoConfig} \cup
    [found : {TRUE}, valid : BOOLEAN, enabled : BOOLEAN, defaultChannel : Channels,
     telegram : BOOLEAN, notifications : Notifications]
Entries == {"ChannelsPlugin", "activate"}

\* a createChannel that takes the telegram section whatever channel is selected
createChannelLenient(cfg) == IF cfg.telegram THEN "channel" ELSE "throws"

\* createChannel: a TelegramChannel, or an Error thrown
createChannel(cfg) ==
    IF cfg.defaultChannel = "telegram" /\ cfg.telegram THEN "channel" ELSE "throws"

\* the activation up to its first await: "returned" and "threw" end it with
\* nothing constructed, "starting" is the await of channel.start()
activationBegins(cfg) ==
    IF ~cfg.found THEN "returned"
    ELSE IF ~cfg.valid THEN "threw"
    ELSE IF ~cfg.enabled THEN "returned"
    ELSE IF createChannel(cfg) = "throws" THEN "threw"
    ELSE "starting"

\* the hooks the activation registers after channel.start(): the plugin
\* module has permission.ask only, the index module one hook per
\* notification flag when the host offers hooks
registeredHooks(entry, hostHooks, n) ==
    IF entry = "ChannelsPlugin"
    THEN (IF n.onPermission THEN {"permission.ask"} ELSE {})
    ELSE IF ~hostHooks THEN {}
    ELSE (IF n.onPermission THEN {"permission.ask"} ELSE {}) \cup
         (IF n.onComplete THEN {"session.complete"} ELSE {}) \cup
         (IF n.onError THEN {"session.error"} ELSE {}) \cup
         (IF n.onIdle THEN {"session.idle"} ELSE {})

\* the host calls the activation, which runs to its end or to the await of
\* channel.start(); start() sets pollingActive and runs poll() to its first
\* receive call
ActivateBegins(entry) ==
    /\ plugin.pc = "idle"
    /\ LET out == activationBegins(config) IN
       IF out = "starting"
       THEN /\ plugin' = [plugin EXCEPT !.pc = "starting", !.entry = entry, !.channel = TRUE,
                                        !.store = TRUE, !.handler = TRUE, !.started = TRUE]
            /\ pollingActive' = TRUE
            /\ loops' = Append(loops,
                               issueReceive([pc |-> "new", aborted |-> FALSE, stopped |-> FALSE,
                                             offset |-> 0, batch |-> <<>>, failures |-> 0],
                                            lastUpdateId))
            /\ pollAbortController' = Len(loops) + 1
       ELSE /\ plugin' = [plugin EXCEPT !.pc = "done", !.entry = entry, !.result = out]
            /\ UNCHANGED <<pollingActive, loops, pollAbortController>>
    /\ UNCHANGED <<config, lastUpdateId, svcUpdates, handled, stoppedWith,
                   permissionVars, parseVars, remoteVars, otherVars>>

\* channel.start() has returned: the hooks are registered and the
\* activation returns
ActivateEnds(hostHooks) ==
    /\ plugin.pc = "starting"
    /\ plugin' = [plugin EXCEPT !.pc = "done", !.result = "returned",
                                !.hooks = registeredHooks(plugin.entry, hostHooks,
                                                          config.notifications)]
    /\ UNCHANGED <<config, loopVars, permissionVars, parseVars, remoteVars, otherVars>>

InitActivate ==
    /\ InitOther
    /\ InitPermission
    /\ InitLoop
    /\ InitParse
    /\ InitRemote
    /\ config \in Configs
    /\ plugin = NotActivated

NextActivate ==
    \/ \E entry \in Entries : ActivateBegins(entry)
    \/ \E hostHooks \in BOOLEAN : ActivateEnds(hostHooks)

SpecActivate == InitActivate /\ [][NextActivate]_vars

(***************************************************************************)
(* C23.  As stated: with telegram selected and no telegram section, or     *)
(* with slack or discord selected, the activation ends by throwing, and no *)
(* channel, store or handler was created, no channel started and no hook   *)
(* registered.                                                             *)
(***************************************************************************)
ConfigurationError(cfg) ==
    /\ cfg.found
    /\ cfg.valid
    /\ \/ cfg.defaultChannel = "telegram" /\ ~cfg.telegram
       \/ cfg.defaultChannel \in {"slack", "discord"}

NothingOperates ==
    /\ ~plugin.channel /\ ~plugin.store /\ ~plugin.handler /\ ~plugin.started
    /\ plugin.hooks = {}
    /\ ~pollingActive /\ loops = <<>>

C23_AlwaysFatal ==
    (ConfigurationError(config) /\ plugin.pc # "idle") =>
        plugin.pc = "done" /\ plugin.result = "threw" /\ NothingOperates

(***************************************************************************)
(* C23, amended.  With such a configuration nothing is created, started or *)
(* registered, and the activation ends at once: by throwing when the       *)
(* configuration has the plugin enabled, by returning without an error     *)
(* when it has the plugin disabled (enabled is read before the channel is  *)
(* chosen).  A configuration the schema refuses also throws with nothing   *)
(* created.                                                                *)
(***************************************************************************)
C23_FatalWhenEnabled ==
    /\ (ConfigurationError(config) /\ plugin.pc # "idle") =>
          /\ plugin.pc = "done"
          /\ NothingOperates
          /\ plugin.result = IF config.enabled THEN "threw" ELSE "returned"
    /\ (config.found /\ ~config.valid /\ plugin.pc # "idle") =>
          plugin.pc = "done" /\ plugin.result = "threw" /\ NothingOperates

\* an enabled configuration that selects slack with the telegram section
\* present: the activation has thrown
C23_Witness ==
    /\ ConfigurationError(config)
    /\ config.enabled /\ config.defaultChannel = "slack" /\ config.telegram
    /\ plugin.pc = "done" /\ plugin.result = "threw"


(***************************************************************************)
(* RemoteController over ChannelsStateStore, the host client and the       *)
(* channel.  A call of handleIncoming runs from one await to the next: the *)
(* host's session.list and session.prompt and the channel's send end with  *)
(* a result or throw; session.list may also answer without data.  The      *)
(* state file is taken to be writable.  Calls may overlap: the controller  *)
(* holds no lock, and a caller need not await one call before the next.    *)
(***************************************************************************)
Slash == "/"
HelpWord == <<"h", "e", "l", "p">>
StatusWord == <<"s", "t", "a", "t", "u", "s">>
ListWord == <<"l", "i", "s", "t">>
UseWord == <<"u", "s", "e">>

\* the ids of the sessions the host has, in the order it lists them
HostSessions == << <<"a", "b">>, <<"a", "c">>, <<"b", "d">> >>

\* the texts of the incoming events
Messages ==
    { <<>>, <<Blank>>,
      <<"h", "i">>, <<Blank, "h", "i", Blank>>,
      <<Slash>>, <<Slash, "x">>,
      <<Slash>> \o HelpWord, <<Slash>> \o StatusWord, <<Slash>> \o ListWord,
      <<Slash>> \o UseWord,
      <<Slash>> \o UseWord \o <<Blank, "a">>,
      <<Slash>> \o UseWord \o <<Blank, "a", "b">>,
      <<Slash>> \o UseWord \o <<Blank, "b">>,
      <<Slash>> \o UseWord \o <<Blank, "x">>,
      <<Blank, Slash, Blank>> \o UseWord \o <<Blank, Blank, "a", "c", Blank, "b">> }

\* String.prototype.startsWith
startsWith(s, prefix) ==
    Len(prefix) <= Len(s) /\ SubSeq(s, 1, Len(prefix)) = prefix

\* the characters of s before its first blank
RECURSIVE firstWord(_)
firstWord(s) ==
    IF s = <<>> \/ Head(s) = Blank THEN <<>> ELSE <<Head(s)>> \o firstWord(Tail(s))

\* split(/\s+/) of a trimmed string: its words; the empty string gives [""]
RECURSIVE split(_)
split(s) ==
    LET word == firstWord(s)
        rest == trimStart(SubSeq(s, Len(word) + 1, Len(s)))
    IN IF rest = <<>> THEN <<word>> ELSE <<word>> \o split(rest)

\* what a call does next: nothing, a channel message, a host call
Step(do, msg, arg) == [do |-> do, msg |-> msg, arg |-> arg]
Ignore == Step("return", "none", <<>>)
Send(msg) == Step("send", msg, <<>>)

\* handleCommand up to its first await
handleCommand(raw) ==
    LET words == split(trim(raw))
        command == Head(words)
        args == Tail(words)
    IN IF command = HelpWord THEN Send("help")
       ELSE IF command = StatusWord THEN Send("status")
       ELSE IF command = ListWord THEN Step("list", "none", <<>>)
       ELSE IF command = UseWord
            THEN (IF args = <<>> THEN Send("usage") ELSE Step("use", "none", Head(args)))
       ELSE Send("unknown")

\* a handleIncoming that does not read the enabled flag
handleIncomingWhateverFlag(isEnabled, messageText, sessionId) ==
    LET t == trim(messageText) IN
    IF t = <<>> THEN Ignore
    ELSE IF startsWith(t, <<Slash>>) THEN handleCommand(Tail(t))
    ELSE IF sessionId = <<>> THEN Send("noSession")
    ELSE Step("prompt", "none", sessionId)

\* a handleIncoming that prompts without looking for an active session
handleIncomingPromptsBlind(isEnabled, messageText, sessionId) ==
    LET t == trim(messageText) IN
    IF ~isEnabled THEN Ignore
    ELSE IF t = <<>> THEN Ignore
    ELSE IF startsWith(t, <<Slash>>) THEN handleCommand(Tail(t))
    ELSE Step("prompt", "none", sessionId)

\* handleIncoming up to its first await
handleIncoming(isEnabled, messageText, sessionId) ==
    LET t == trim(messageText) IN
    IF ~isEnabled THEN Ignore
    ELSE IF t = <<>> THEN Ignore
    ELSE IF startsWith(t, <<Slash>>) THEN handleCommand(Tail(t))
    ELSE IF sessionId = <<>> THEN Send("noSession")
    ELSE Step("prompt", "none", sessionId)

\* sessions.filter(session => session.id.startsWith(prefix))
matches(sessions, prefix) ==
    SelectSeq(sessions, LAMBDA id : startsWith(id, prefix))

\* a setActiveSession that takes the last of several matches
setActiveSessionTakesLast(sessions, prefix) ==
    LET found == matches(sessions, prefix) IN
    IF Len(found) = 0 THEN [msg |-> "notFound", set |-> <<>>]
    ELSE [msg |-> "activeSet", set |-> found[Len(found)]]

\* a setActiveSession that takes the first of several matches
setActiveSessionTakesFirst(sessions, prefix) ==
    LET found == matches(sessions, prefix) IN
    IF Len(found) = 0 THEN [msg |-> "notFound", set |-> <<>>]
    ELSE [msg |-> "activeSet", set |-> found[1]]

\* setActiveSession after the list call: the message, and the id it sets
setActiveSession(sessions, prefix) ==
    LET found == matches(sessions, prefix) IN
    IF Len(found) = 0 THEN [msg |-> "notFound", set |-> <<>>]
    ELSE IF Len(found) > 1 THEN [msg |-> "ambiguous", set |-> <<>>]
    ELSE [msg |-> "activeSet", set |-> found[1]]

\* sendSessionList after the list call: the message
sendSessionList(sessions) ==
    IF Len(sessions) = 0 THEN "noSessions" ELSE "sessionList"

\* a catch block around session.prompt that reports nothing
afterPromptSilent(ok) == IF ok THEN Ignore ELSE Ignore

\* handleIncoming after the prompt call: return, or the catch block's message
afterPrompt(ok) == IF ok THEN Ignore ELSE Send("promptFailed")

\* a call of handleIncoming at its arrival
NewCall(messageText, isEnabled, sessionId) ==
    [text |-> messageText, wasEnabled |-> isEnabled, activeAtArrival |-> sessionId,
     pc |-> "new", arg |-> <<>>, sends |-> 0, sent |-> "none", lists |-> 0,
     prompts |-> 0, promptedTo |-> <<>>, promptOk |-> FALSE, hostFailed |-> FALSE,
     wrote |-> <<>>, result |-> "running"]

\* the call takes its step: it returns, posts a channel message, or makes
\* a host call
Takes(call, step) ==
    IF step.do = "return" THEN [call EXCEPT !.pc = "done", !.result = "returned"]
    ELSE IF step.do = "send"
         THEN [call EXCEPT !.pc = "sending", !.sends = @ + 1, !.sent = step.msg]
    ELSE IF step.do = "prompt"
         THEN [call EXCEPT !.pc = "prompting", !.prompts = @ + 1, !.promptedTo = step.arg]
    ELSE [call EXCEPT !.pc = IF step.do = "list" THEN "listing" ELSE "matching",
                      !.lists = @ + 1, !.arg = step.arg]

\* handleIncoming(message) is called
Incoming(m) ==
    /\ Len(calls) < MaxCalls
    /\ calls' = Append(calls, Takes(NewCall(m, enabled, activeSessionId),
                                    handleIncoming(enabled, m, activeSessionId)))
    /\ UNCHANGED <<enabled, activeSessionId, persisted>>
    /\ UNCHANGED <<permissionVars, loopVars, parseVars, pluginVars, otherVars>>

\* client.session.list of call c ends: with the sessions, without data, or
\* by throwing; a throw leaves handleIncoming, nothing catches it
SessionListReturns(c, out) ==
    /\ calls[c].pc \in {"listing", "matching"}
    /\ LET sessions == IF out = "data" THEN HostSessions ELSE <<>>
           use == setActiveSession(sessions, calls[c].arg)
       IN IF out = "throws"
          THEN /\ calls' = [calls EXCEPT ![c] = [@ EXCEPT !.pc = "done", !.hostFailed = TRUE,
                                                         !.result = "threwHost"]]
               /\ UNCHANGED <<activeSessionId, persisted>>
          ELSE IF calls[c].pc = "listing"
          THEN /\ calls' = [calls EXCEPT ![c] = Takes([@ EXCEPT !.hostFailed = out = "nodata"],
                                                      Send(sendSessionList(sessions)))]
               /\ UNCHANGED <<activeSessionId, persisted>>
          ELSE /\ calls' = [calls EXCEPT ![c] = Takes([@ EXCEPT !.hostFailed = out = "nodata",
                                                               !.wrote = use.set],
                                                      Send(use.msg))]
               /\ activeSessionId' = IF use.set # <<>> THEN use.set ELSE activeSessionId
               /\ persisted' = IF use.set # <<>> THEN use.set ELSE persisted
    /\ UNCHANGED enabled
    /\ UNCHANGED <<permissionVars, loopVars, parseVars, pluginVars, otherVars>>

\* client.session.prompt of call c ends, ok or by throwing into the catch block
PromptReturns(c, ok) ==
    /\ calls[c].pc = "prompting"
    /\ calls' = [calls EXCEPT ![c] = Takes([@ EXCEPT !.promptOk = ok, !.hostFailed = ~ok],
                                           afterPrompt(ok))]
    /\ UNCHANGED <<enabled, activeSessionId, persisted>>
    /\ UNCHANGED <<permissionVars, loopVars, parseVars, pluginVars, otherVars>>

\* channel.send of call c ends: handleIncoming returns, or the send's error
\* leaves it
ChannelSendEnds(c, ok) ==
    /\ calls[c].pc = "sending"
    /\ calls' = [calls EXCEPT ![c] = [@ EXCEPT !.pc = "done",
                                              !.result = IF ok THEN "returned" ELSE "threwSend"]]
    /\ UNCHANGED <<enabled, activeSessionId, persisted>>
    /\ UNCHANGED <<permissionVars, loopVars, parseVars, pluginVars, otherVars>>

\* setEnabled(b)
SetEnabled(b) ==
    /\ b # enabled
    /\ enabled' = b
    /\ UNCHANGED <<activeSessionId, persisted, calls>>
    /\ UNCHANGED <<permissionVars, loopVars, parseVars, pluginVars, otherVars>>

\* the controller as constructed: enabled or not, over the state file of an
\* earlier run
InitController ==
    /\ InitOther
    /\ InitPermission
    /\ InitLoop
    /\ InitParse
    /\ InitPlugin
    /\ enabled \in BOOLEAN
    /\ activeSessionId \in {<<>>, HostSessions[2]}
    /\ persisted = activeSessionId
    /\ calls = <<>>

NextRemote ==
    \/ \E m \in Messages : Incoming(m)
    \/ \E c \in DOMAIN calls, out \in {"data", "nodata", "throws"} : SessionListReturns(c, out)
    \/ \E c \in DOMAIN calls, ok \in BOOLEAN : PromptReturns(c, ok)
    \/ \E c \in DOMAIN calls, ok \in BOOLEAN : ChannelSendEnds(c, ok)
    \/ \E b \in BOOLEAN : SetEnabled(b)

SpecRemote == InitController /\ [][NextRemote]_vars


(***************************************************************************)
(* Vocabulary of the controller's properties.                              *)
(***************************************************************************)
\* the event's text is empty after trimming
EmptyText(call) == trim(call.text) = <<>>
\* the event's text is neither empty nor a command
FreeText(call) == ~EmptyText(call) /\ ~startsWith(trim(call.text), <<Slash>>)
Finished(call) == call.pc = "done"
\* the sessions of the host whose id starts with the prefix
Matching(prefix) ==
    {i \in DOMAIN HostSessions : startsWith(HostSessions[i], prefix)}

(***************************************************************************)
(* C24.  A call of handleIncoming that arrives while the enabled flag is   *)
(* false, or whose text is empty after trimming, has returned at once      *)
(* with no channel send, no host call and no write of the active session,  *)
(* and its arrival leaves the active session and the state file as they    *)
(* were.                                                                   *)
(***************************************************************************)
C24_NothingDone ==
    \A c \in DOMAIN calls :
        (~calls[c].wasEnabled \/ EmptyText(calls[c])) =>
            /\ Finished(calls[c]) /\ calls[c].result = "returned"
            /\ calls[c].sends = 0 /\ calls[c].lists = 0 /\ calls[c].prompts = 0
            /\ calls[c].wrote = <<>>

C24_Ignored ==
    /\ []C24_NothingDone
    /\ [][\A m \in Messages :
            (Incoming(m) /\ (~enabled \/ trim(m) = <<>>)) =>
                UNCHANGED <<activeSessionId, persisted>>]_vars

\* a use command that names one session arrived with the flag false, and a
\* blank text with the flag true
C24_Witness ==
    \E c, d \in DOMAIN calls :
        /\ ~calls[c].wasEnabled
        /\ calls[c].text = <<Slash>> \o UseWord \o <<Blank, "b">>
        /\ Finished(calls[c])
        /\ calls[d].wasEnabled /\ calls[d].text = <<Blank>> /\ Finished(calls[d])

(***************************************************************************)
(* C25.  When the session list of a use command with prefix p arrives: if  *)
(* no session id starts with p the active session and the state file are   *)
(* unchanged and the message is "not found"; if more than one does they    *)
(* are unchanged and the message reports the ambiguity; if exactly one     *)
(* does, the active session and the state file hold that id and the        *)
(* message says so.                                                        *)
(***************************************************************************)
C25_UseByPrefix ==
    [][\A c \in DOMAIN calls :
          (calls[c].pc = "matching" /\ SessionListReturns(c, "data")) =>
              LET found == Matching(calls[c].arg) IN
              /\ calls'[c].sends = calls[c].sends + 1
              /\ Cardinality(found) = 0 =>
                    /\ UNCHANGED <<activeSessionId, persisted>>
                    /\ calls'[c].sent = "notFound"
              /\ Cardinality(found) > 1 =>
                    /\ UNCHANGED <<activeSessionId, persisted>>
                    /\ calls'[c].sent = "ambiguous"
              /\ Cardinality(found) = 1 =>
                    /\ \A i \in found : /\ activeSessionId' = HostSessions[i]
                                        /\ persisted' = HostSessions[i]
                    /\ calls'[c].sent = "activeSet"]_vars

\* one use command found two sessions and changed nothing, another found one
\* and set it
C25_Witness ==
    \E c, d \in DOMAIN calls :
        /\ calls[c].arg = <<"a">> /\ calls[c].sent = "ambiguous" /\ calls[c].wrote = <<>>
        /\ calls[d].arg = <<"b">> /\ calls[d].sent = "activeSet"
        /\ calls[d].activeAtArrival # <<"b", "d">>
        /\ activeSessionId = <<"b", "d">> /\ persisted = <<"b", "d">>

(***************************************************************************)
(* C26.  A call with free text that arrives while enabled and with no      *)
(* active session posts the message that tells the user to select a        *)
(* session, and never calls the host: no prompt, no list.                  *)
(***************************************************************************)
C26_NoSessionNoPrompt ==
    \A c \in DOMAIN calls :
        (FreeText(calls[c]) /\ calls[c].wasEnabled /\ calls[c].activeAtArrival = <<>>) =>
            /\ calls[c].sends = 1 /\ calls[c].sent = "noSession"
            /\ calls[c].prompts = 0 /\ calls[c].lists = 0

C26_Witness ==
    \E c \in DOMAIN calls :
        /\ calls[c].text = <<Blank, "h", "i", Blank>>
        /\ calls[c].wasEnabled /\ calls[c].activeAtArrival = <<>>
        /\ calls[c].sent = "noSession" /\ calls[c].result = "returned"

(***************************************************************************)
(* C27.  A call with free text that arrives while enabled makes at most    *)
(* one prompt call, to the session active at its arrival, and when it has  *)
(* ended either that prompt was accepted and no channel message was        *)
(* posted, or no prompt was accepted and exactly one channel message was   *)
(* posted, saying that no session is active or that the prompt failed;     *)
(* until then it is waiting for the prompt or for the send.                *)
(***************************************************************************)
C27_PromptOrReport ==
    \A c \in DOMAIN calls :
        (FreeText(calls[c]) /\ calls[c].wasEnabled) =>
            /\ calls[c].prompts <= 1 /\ calls[c].lists = 0
            /\ calls[c].prompts = 1 =>
                  /\ calls[c].activeAtArrival # <<>>
                  /\ calls[c].promptedTo = calls[c].activeAtArrival
            /\ ~Finished(calls[c]) => calls[c].pc \in {"prompting", "sending"}
            /\ Finished(calls[c]) =>
                  \/ calls[c].promptOk /\ calls[c].sends = 0
                  \/ /\ ~calls[c].promptOk /\ calls[c].sends = 1
                     /\ calls[c].sent =
                            IF calls[c].prompts = 0 THEN "noSession" ELSE "promptFailed"

\* a text was prompted to the session active at its arrival, although another
\* session was selected before the prompt ended
C27_Witness ==
    \E c \in DOMAIN calls :
        /\ FreeText(calls[c]) /\ Finished(calls[c]) /\ calls[c].promptOk
        /\ calls[c].sends = 0
        /\ calls[c].promptedTo = <<"a", "c">>
        /\ activeSessionId = <<"a", "b">>

\* a text whose prompt failed was reported
C27_WitnessFailed ==
    \E c \in DOMAIN calls :
        /\ FreeText(calls[c]) /\ Finished(calls[c])
        /\ calls[c].prompts = 1 /\ calls[c].sent = "promptFailed"

(***************************************************************************)
(* C28.  A call whose host call failed has posted a channel message about  *)
(* it, and no call has ended by the error of a host call leaving           *)
(* handleIncoming.                                                         *)
(***************************************************************************)
C28_HostFailureReported ==
    \A c \in DOMAIN calls :
        /\ calls[c].result # "threwHost"
        /\ (calls[c].hostFailed /\ Finished(calls[c])) => calls[c].sends = 1

(***************************************************************************)
(* C29.  When two use commands that each set a session have both ended,    *)
(* the active session is the one set by the command that arrived later.    *)
(***************************************************************************)
C29_ArrivalOrder ==
    \A c, d \in DOMAIN calls :
        (c < d /\ Finished(calls[c]) /\ Finished(calls[d])
               /\ calls[c].wrote # <<>> /\ calls[d].wrote # <<>>) =>
            activeSessionId = calls[d].wrote


(***************************************************************************)
(* The permission requests to their end.  The clock and the store's timers *)
(* run, a call of handlePermissionRequest whose awaitable is settled       *)
(* resumes, and the editMessageText call of the terminal edit ends, ok or  *)
(* not.  The foreign traffic of the chat is left out here.                 *)
(***************************************************************************)
NextTerminal ==
    \/ \E r \in ReqIds : HandlerStart(r)
    \/ \E r \in ReqIds : ServiceAccepts(r)
    \/ \E r \in ReqIds : ServiceRefuses(r)
    \/ \E r \in ReqIds : SendReturns(r)
    \/ \E r \in ReqIds : HandlerAdds(r)
    \/ \E r \in ReqIds : HandlerResumes(r)
    \/ \E r \in ReqIds, ok \in BOOLEAN : EditReturns(r, ok)
    \/ \E u \in Updates : HandleUpdate(u)
    \/ \E ok \in BOOLEAN : AnswerCallbackDone(ok)
    \/ \E p \in DOMAIN promises : Timeout(p)
    \/ Deactivate
    \/ Tick

FairTerminal ==
    /\ WF_vars(Tick)
    /\ \A p \in 1..MaxPromises : WF_vars(p \in DOMAIN promises /\ Timeout(p))
    /\ \A r \in ReqIds : WF_vars(HandlerResumes(r))
    /\ \A r \in ReqIds : WF_vars(\E ok \in BOOLEAN : EditReturns(r, ok))

SpecTerminal == Init /\ [][NextTerminal]_vars
SpecTerminalFair == SpecTerminal /\ FairTerminal

(***************************************************************************)
(* C30.  The table holds the id of a request only while its call of        *)
(* handlePermissionRequest is between the send and the end of the terminal *)
(* edit, and for every request registered in the store the table           *)
(* eventually no longer holds its id: the request is answered, timed out   *)
(* or cleared, the call resumes, and the terminal edit, ok or not,         *)
(* removes the entry.                                                      *)
(***************************************************************************)
C30_OnlyInFlight ==
    \A r \in DOMAIN pendingMessageIds : pc[r] \in {"sent", "waiting", "editing"}

C30_EntryRemoved ==
    /\ []C30_OnlyInFlight
    /\ \A r \in ReqIds :
          (pc[r] = "waiting" /\ r \in DOMAIN pendingMessageIds)
              ~> (r \notin DOMAIN pendingMessageIds /\ pc[r] = "done")

\* both requests were sent and registered, one timed out and one was
\* answered, and the table is empty again
C30_Witness ==
    /\ \A r \in ReqIds : pc[r] = "done" /\ nativeId[r] # 0 /\ edit[r].n = 1
    /\ \E r \in ReqIds : FailedWith(hPromise[r], TimeoutError)
    /\ \E r \in ReqIds : promises[hPromise[r]].st = "fulfilled"
    /\ pendingMessageIds = EmptyMap


(***************************************************************************)
(* NotificationHandler.  A call of notify asks shouldNotify for the flag   *)
(* of the event's kind and either returns or posts one channel message and *)
(* awaits the send, whose error would leave notify.                        *)
(***************************************************************************)
EventTypes == {"complete", "error", "idle"}

\* a shouldNotify that reads the error flag for idle events
shouldNotifyIdleAsError(type, flags) ==
    IF type = "complete" THEN flags.onComplete
    ELSE IF type = "error" THEN flags.onError
    ELSE IF type = "idle" THEN flags.onError
    ELSE FALSE

\* shouldNotify
shouldNotify(type, flags) ==
    IF type = "complete" THEN flags.onComplete
    ELSE IF type = "error" THEN flags.onError
    ELSE IF type = "idle" THEN flags.onIdle
    ELSE FALSE

\* notify(event) up to its await, or to its return
Notify(type) ==
    /\ Len(notifyCalls) < MaxNotifies
    /\ notifyCalls' = Append(notifyCalls,
           IF shouldNotify(type, notifyConfig)
           THEN [type |-> type, pc |-> "sending", sends |-> 1, result |-> "running"]
           ELSE [type |-> type, pc |-> "done", sends |-> 0, result |-> "returned"])
    /\ UNCHANGED <<notifyConfig, listVars, deliveryVars>>
    /\ UNCHANGED <<permissionVars, loopVars, parseVars, pluginVars, remoteVars>>

\* channel.send of call c ends: notify returns, or the send's error leaves it
NotifySendEnds(c, ok) ==
    /\ notifyCalls[c].pc = "sending"
    /\ notifyCalls' = [notifyCalls EXCEPT ![c] =
                          [@ EXCEPT !.pc = "done",
                                    !.result = IF ok THEN "returned" ELSE "threw"]]
    /\ UNCHANGED <<notifyConfig, listVars, deliveryVars>>
    /\ UNCHANGED <<permissionVars, loopVars, parseVars, pluginVars, remoteVars>>

\* a handler constructed with any flags
InitNotifier ==
    /\ InitPermission
    /\ InitLoop
    /\ InitParse
    /\ InitPlugin
    /\ InitRemote
    /\ InitList
    /\ InitDelivery
    /\ notifyConfig \in Notifications
    /\ notifyCalls = <<>>

NextNotify ==
    \/ \E type \in EventTypes : Notify(type)
    \/ \E c \in DOMAIN notifyCalls, ok \in BOOLEAN : NotifySendEnds(c, ok)

SpecNotify == InitNotifier /\ [][NextNotify]_vars

(***************************************************************************)
(* C31.  A call of notify has made exactly one channel send if the flag of *)
(* its event's kind is true and none, returning at once, if it is false,   *)
(* whatever calls came before; no call changes the handler's flags.        *)
(***************************************************************************)
FlagOf(type) ==
    IF type = "complete" THEN notifyConfig.onComplete
    ELSE IF type = "error" THEN notifyConfig.onError
    ELSE notifyConfig.onIdle

C31_OnePerFlag ==
    \A c \in DOMAIN notifyCalls :
        /\ notifyCalls[c].sends = IF FlagOf(notifyCalls[c].type) THEN 1 ELSE 0
        /\ ~FlagOf(notifyCalls[c].type) =>
               notifyCalls[c].pc = "done" /\ notifyCalls[c].result = "returned"

C31_NotifyByFlag ==
    /\ []C31_OnePerFlag
    /\ [][UNCHANGED notifyConfig]_vars

\* an error event was sent, then an idle event was not, and then the flags
\* are as they were: error on, idle off
C31_Witness ==
    /\ Len(notifyCalls) = 2
    /\ notifyCalls[1].type = "error" /\ notifyCalls[1].sends = 1
    /\ notifyCalls[1].result = "returned"
    /\ notifyCalls[2].type = "idle" /\ notifyCalls[2].sends = 0
    /\ notifyConfig.onError /\ ~notifyConfig.onIdle


(***************************************************************************)
(* C32.  With several requests pending, the handling of a reply or a       *)
(* callback is matched to the request whose message it targets and to no   *)
(* other: it completes that request's awaitable with the decision of the   *)
(* event, and it leaves every other request's store record, awaitable,     *)
(* table entry, terminal edit and dispatch count as they were.  No event  *)
(* that targets another message, or none, is dispatched to the request,    *)
(* and an awaitable is fulfilled only by a dispatch to its own request.    *)
(***************************************************************************)
Untouched(b) ==
    /\ (b \in DOMAIN requests) = (b \in DOMAIN requests')
    /\ hPromise[b] \in DOMAIN promises => promises'[hPromise[b]] = promises[hPromise[b]]
    /\ (b \in DOMAIN pendingMessageIds) = (b \in DOMAIN pendingMessageIds')
    /\ edit'[b] = edit[b]
    /\ dispatched'[b] = dispatched[b]
    /\ hResult'[b] = hResult[b]

\* the step is the handling of an event matched to request a
DispatchTo(a) == dispatched' = [dispatched EXCEPT ![a] = @ + 1]

C32_NoCrossTalk ==
    /\ [][dispatched' # dispatched =>
            \E a \in ReqIds :
                /\ DispatchTo(a)
                /\ a \in DOMAIN pendingMessageIds
                /\ pendingMessageIds[a] = nativeId[a]
                /\ \A b \in ReqIds \ {a} : Untouched(b)
                /\ \E u \in Updates :
                       /\ u.target = nativeId[a]
                       /\ u.text # <<>>
                       /\ a \in DOMAIN requests =>
                              /\ promises'[requests[a]].st = "fulfilled"
                              /\ promises'[requests[a]].val = parseResponse(u.text)
                       /\ HandleUpdate(u)
                /\ \A k \in {"message", "callback"}, x \in {ALLOW, DENY},
                      t \in ({0} \cup MessageIds) \ {nativeId[a]} :
                       ~HandleUpdate([kind |-> k, target |-> t, text |-> x])]_vars
    /\ [][\A b \in ReqIds :
            (/\ hPromise[b] \in DOMAIN promises
             /\ Pending(hPromise[b])
             /\ promises'[hPromise[b]].st = "fulfilled") => DispatchTo(b)]_vars

\* both requests were pending at once, the event for the second one was
\* handled last and resolved it with deny, and the first is still pending
C32_Witness ==
    /\ lastCall = Call("resolve", 2, TRUE)
    /\ pc[1] = "waiting" /\ Pending(hPromise[1]) /\ 1 \in DOMAIN requests
    /\ 1 \in DOMAIN pendingMessageIds
    /\ promises[hPromise[2]].st = "fulfilled" /\ promises[hPromise[2]].val = DENY
    /\ hPromise[1] < hPromise[2]


(***************************************************************************)
(* C33.  At any time at most one receive loop is running: of all the       *)
(* calls of poll() at most one has not ended.                              *)
(***************************************************************************)
Running(l) == loops[l].pc # "ended"

C33_OneLoop ==
    \A l, m \in DOMAIN loops : (Running(l) /\ Running(m)) => l = m


(***************************************************************************)
(* The receive loop with the content of the updates.  The channel was      *)
(* started, its one loop is in its first receive call; the service holds   *)
(* the updates the users send, with what they say and the message they     *)
(* target; the loop hands each update of a batch to handleUpdate and goes  *)
(* on with the next when handleUpdate has returned.  stop() may be called  *)
(* at any moment.  Requests are sent and registered; how they end is not   *)
(* followed here.                                                          *)
(***************************************************************************)
\* the updates the users send here: allow or deny, by text or by button
Decided == {u \in Updates : u.text \in {ALLOW, DENY} /\ u.target # 0}

\* the service gets an update of a user
Arrives(u) ==
    /\ svcUpdates < MaxUpdates
    /\ u.target < nextMessageId
    /\ svcUpdates' = svcUpdates + 1
    /\ svcContent' = Append(svcContent, u)
    /\ UNCHANGED <<pollingActive, lastUpdateId, pollAbortController, loops, handled,
                   stoppedWith, cursorCheckpoint>>
    /\ UNCHANGED <<permissionVars, parseVars, pluginVars, remoteVars, notifyVars, listVars>>

\* poll() goes on after an await with the rest of the batch: handleUpdate is
\* called with the next update, or the loop is at its head
Deliver(l, batch) ==
    /\ LoopGoesOn(l, batch)
    /\ IF batch # <<>> THEN handleUpdate(svcContent[Head(batch)])
       ELSE UNCHANGED permissionVars
    /\ UNCHANGED <<pollingActive, svcUpdates, stoppedWith>>
    /\ UNCHANGED <<parseVars, pluginVars, remoteVars, otherVars>>

\* the receive call of loop l is answered ok
BatchReceives(l) ==
    /\ loops[l].pc = "fetching"
    /\ ~loops[l].aborted
    /\ Deliver(l, getUpdatesResult(svcUpdates, loops[l].offset))

\* handleUpdate has returned to loop l
BatchGoesOn(l) ==
    /\ loops[l].pc = "handling"
    /\ pollPc = "idle"
    /\ Deliver(l, loops[l].batch)

NextBatch ==
    \/ \E r \in ReqIds : HandlerStart(r)
    \/ \E r \in ReqIds : ServiceAccepts(r)
    \/ \E r \in ReqIds : SendReturns(r)
    \/ \E r \in ReqIds : HandlerAdds(r)
    \/ \E u \in Decided : Arrives(u)
    \/ \E l \in DOMAIN loops : BatchReceives(l)
    \/ \E ok \in BOOLEAN : AnswerCallbackDone(ok)
    \/ \E l \in DOMAIN loops : BatchGoesOn(l)
    \/ \E l \in DOMAIN loops : ReceiveAborted(l)
    \/ Stop

SpecBatch == InitStarted /\ [][NextBatch]_vars

(***************************************************************************)
(* C34.  While the channel is stopped, after stop() and before a later     *)
(* start(), no update is dispatched to the response callbacks and no       *)
(* awaitable is fulfilled.                                                 *)
(***************************************************************************)
C34_QuietAfterStop ==
    [][~pollingActive =>
          /\ dispatched' = dispatched
          /\ \A p \in DOMAIN promises :
                promises'[p].st = "fulfilled" => promises[p].st = "fulfilled"]_vars


(***************************************************************************)
(* The process ends and a new one is started.  The new process constructs  *)
(* a TelegramChannel: its fields have their initial values, the loops of   *)
(* the old process are gone.  The state file (cursorCheckpoint is its      *)
(* channels.telegram.lastUpdateId, 0 when absent) and the updates held by  *)
(* the service outlive the process.  TelegramChannel holds no reference to *)
(* ChannelsStateStore: no statement of it calls getTelegramLastUpdateId or *)
(* setTelegramLastUpdateId, and so no action here changes cursorCheckpoint.*)
(***************************************************************************)
Restart ==
    /\ pollingActive' = FALSE
    /\ lastUpdateId' = 0
    /\ pollAbortController' = 0
    /\ loops' = <<>>
    /\ UNCHANGED <<svcUpdates, handled, stoppedWith, permissionVars, parseVars,
                   pluginVars, remoteVars, otherVars>>

NextRestart ==
    \/ NextPoll
    \/ Restart

SpecRestart == Init /\ [][NextRestart]_vars

\* C35: the cursor is written to the external state whenever it advances,
\* and a channel created after a restart of the process starts from the
\* checkpoint, which is the cursor the channel before it had reached: the
\* updates handled before the restart are not requested from the beginning.
C35_ResumesFromCheckpoint ==
    [][/\ lastUpdateId' > lastUpdateId => cursorCheckpoint' = lastUpdateId'
       /\ Restart => /\ lastUpdateId' = cursorCheckpoint
                     /\ lastUpdateId' = lastUpdateId]_vars


\* the table has an entry for request r
HasEntry(r) == r \in DOMAIN pendingMessageIds /\ pendingMessageIds[r] # 0

\* C36: every request id pending in the store has an entry in the
\* correlation table; an id is registered in the store only when its entry
\* exists already, and an entry goes only when the store no longer holds
\* the id (after a resolution, a timeout or a clear).
C36_PendingHasEntry ==
    /\ [](\A r \in DOMAIN requests : HasEntry(r))
    /\ [][/\ \A r \in DOMAIN requests' \ DOMAIN requests : HasEntry(r)
          /\ \A r \in DOMAIN pendingMessageIds \ DOMAIN pendingMessageIds' :
                r \notin DOMAIN requests /\ r \notin DOMAIN requests']_vars

\* one request is pending with its entry while the entry of another, which
\* the store has let go, has been removed
C36_Witness ==
    \E a, b \in 1..MaxRequests :
        /\ a # b
        /\ a \in DOMAIN requests /\ HasEntry(a)
        /\ pc[b] = "done" /\ edit[b].n > 0 /\ ~HasEntry(b)


\* the words of the command in the event's text
CommandWords(call) == split(trim(Tail(trim(call.text))))
\* the event's text is a use command with an argument
UseWithArgument(call) ==
    /\ startsWith(trim(call.text), <<Slash>>)
    /\ Head(CommandWords(call)) = UseWord
    /\ Len(CommandWords(call)) > 1

\* C37: the active session reference changes only in a step of a use
\* command whose argument is the prefix of exactly one session's id, and
\* then to that id; steps of every other call (help, status, list, unknown
\* commands, use without an argument, free text forwarded or not) leave it
\* as it is.  It holds no session or one session id.
C37_OnlyByUse ==
    /\ [](\/ activeSessionId = <<>>
          \/ \E i \in DOMAIN HostSessions : activeSessionId = HostSessions[i])
    /\ [][activeSessionId' # activeSessionId =>
             \E c \in DOMAIN calls :
                /\ calls'[c] # calls[c]
                /\ calls[c].wasEnabled
                /\ UseWithArgument(calls[c])
                /\ Cardinality(Matching(CommandWords(calls[c])[2])) = 1
                /\ \A i \in Matching(CommandWords(calls[c])[2]) :
                      activeSessionId' = HostSessions[i]]_vars

\* free text was forwarded to the session selected then, the host call
\* failed and the reference stayed; a use command then selected another
C37_Witness ==
    \E c, d \in DOMAIN calls :
        /\ FreeText(calls[c]) /\ Finished(calls[c])
        /\ calls[c].prompts = 1 /\ ~calls[c].promptOk
        /\ calls[c].promptedTo = <<"a", "c">>
        /\ calls[d].activeAtArrival = <<"a", "c">>
        /\ UseWithArgument(calls[d]) /\ calls[d].sent = "activeSet"
        /\ activeSessionId = <<"b", "d">>


(***************************************************************************)
(* The content of the list command's message: sendSessionList after the    *)
(* host's list call returned.  A session is its id, its title and its      *)
(* time.updated.  The host's i-th session has the id SessionId(i): short   *)
(* ids, and ids of nine characters that share their first eight; every     *)
(* third session has no title.  The message is its first line, the lines   *)
(* of the sessions (prefix of the id, title, suffix) and its last lines;   *)
(* top is the local constant of that name.                                 *)
(***************************************************************************)
Digits == <<"1", "2", "3", "4", "5", "6", "7", "8", "9">>
SessionId(i) ==
    IF i % 2 = 1 THEN <<"s", Digits[i]>>
    ELSE <<"a", "b", "c", "d", "e", "f", "g", "h", Digits[i]>>
SessionTitle(i) == IF i % 3 = 0 THEN <<>> ELSE <<"t", Digits[i]>>

Untitled == <<"Untitled">>
ActiveMark == <<" (active)">>
NoSessionsFound == "No sessions found."
RecentSessions == "*Recent Sessions*"
UseHint == <<"", "Use /use <sessionId> to select.">>

\* the answers of client.session.list: n sessions in the host's order
Listings ==
    UNION {{[i \in 1..n |-> [id |-> SessionId(i), title |-> SessionTitle(i),
                              time |-> [updated |-> stamp[i]]]] :
               stamp \in [1..n -> 0..MaxStamp]} : n \in 0..MaxSessions}

\* Array.prototype.slice(from, to) and String.prototype.slice(from, to)
slice(xs, from, to) == SubSeq(xs, from + 1, Min(to, Len(xs)))

\* a sort with the comparator a.time.updated - b.time.updated
RECURSIVE sortAscending(_)
sortAscending(sessions) ==
    LET RECURSIVE insert(_, _)
        insert(sorted, s) ==
            IF sorted = <<>> THEN <<s>>
            ELSE IF Head(sorted).time.updated <= s.time.updated
                 THEN <<Head(sorted)>> \o insert(Tail(sorted), s)
                 ELSE <<s>> \o sorted
    IN IF sessions = <<>> THEN <<>>
       ELSE insert(sortAscending(SubSeq(sessions, 1, Len(sessions) - 1)),
                   sessions[Len(sessions)])

\* sessions.sort((a, b) => b.time.updated - a.time.updated): the sort is
\* stable, sessions of one timestamp keep the host's order
RECURSIVE sort(_)
sort(sessions) ==
    LET RECURSIVE insert(_, _)
        insert(sorted, s) ==
            IF sorted = <<>> THEN <<s>>
            ELSE IF Head(sorted).time.updated >= s.time.updated
                 THEN <<Head(sorted)>> \o insert(Tail(sorted), s)
                 ELSE <<s>> \o sorted
    IN IF sessions = <<>> THEN <<>>
       ELSE insert(sort(SubSeq(sessions, 1, Len(sessions) - 1)),
                   sessions[Len(sessions)])

\* the line of one session
sessionLine(session, sessionId) ==
    [id |-> slice(session.id, 0, 8),
     title |-> IF session.title = <<>> THEN Untitled ELSE session.title,
     suffix |-> IF sessionId = session.id THEN ActiveMark ELSE <<>>]

\* sendSessionList after the list call: the message it sends
sessionListMessage(sessions, sessionId) ==
    LET sorted == sort(sessions)
        top == slice(sorted, 0, 5)
    IN IF Len(top) = 0
       THEN [top |-> top, header |-> NoSessionsFound, lines |-> <<>>, footer |-> <<>>]
       ELSE [top |-> top, header |-> RecentSessions,
             lines |-> [k \in DOMAIN top |-> sessionLine(top[k], sessionId)],
             footer |-> UseHint]

\* the list command is answered by the host and the message is composed
ListSessions ==
    /\ listOutput = NotListed
    /\ listOutput' = sessionListMessage(listInput.sessions, listInput.active)
    /\ UNCHANGED <<listInput, notifyVars, deliveryVars>>
    /\ UNCHANGED <<permissionVars, loopVars, parseVars, pluginVars, remoteVars>>

\* the answer of the host and the active session of the state: none, the
\* id of a session, or the first eight characters of one
InitListing ==
    /\ InitPermission
    /\ InitLoop
    /\ InitParse
    /\ InitPlugin
    /\ InitRemote
    /\ InitNotify
    /\ InitDelivery
    /\ listInput \in [sessions : Listings,
                      active : {<<>>, slice(SessionId(2), 0, 8)}
                                 \cup {SessionId(i) : i \in 1..MaxSessions}]
    /\ listOutput = NotListed

NextList == ListSessions

SpecList == InitListing /\ [][NextList]_vars

\* the message of the list command has been composed
Listed == listOutput # NotListed
\* the sessions of the answer that are not among the ones shown
Hidden ==
    {i \in DOMAIN listInput.sessions :
        \A k \in DOMAIN listOutput.top : listOutput.top[k] # listInput.sessions[i]}

\* C38: the list command's message shows min(5, n) of the n sessions, each
\* once, none of them updated earlier than a session not shown, in
\* descending order of the last-updated timestamp; the line of a session
\* has the first 8 characters of its id, and the mark exactly when its id is
\* the active session's.  With no sessions the message says that none were
\* found.
C38_TopFiveNewestFirst ==
    Listed =>
        LET sessions == listInput.sessions
            top == listOutput.top
        IN /\ Len(top) = Min(5, Len(sessions))
           /\ \A k \in DOMAIN top : \E i \in DOMAIN sessions : top[k] = sessions[i]
           /\ \A j, k \in DOMAIN top : j # k => top[j] # top[k]
           /\ \A j, k \in DOMAIN top : j < k => top[j].time.updated >= top[k].time.updated
           /\ \A i \in Hidden, k \in DOMAIN top :
                 sessions[i].time.updated <= top[k].time.updated
           /\ Len(listOutput.lines) = Len(top)
           /\ \A k \in DOMAIN top :
                 /\ listOutput.lines[k].id = SubSeq(top[k].id, 1, Min(8, Len(top[k].id)))
                 /\ listOutput.lines[k].suffix # <<>> <=> top[k].id = listInput.active
           /\ sessions = <<>> <=> listOutput.header = NoSessionsFound

\* six sessions, the newest listed last by the host and active, were
\* answered with five lines, the first of them marked and cut to 8 characters
C38_Witness ==
    /\ Listed
    /\ Len(listInput.sessions) = 6
    /\ listInput.active = SessionId(6)
    /\ listInput.sessions[6].time.updated = MaxStamp
    /\ \A i \in 1..5 : listInput.sessions[i].time.updated < MaxStamp
    /\ Len(listOutput.lines) = 5
    /\ listOutput.lines[1] =
          [id |-> <<"a", "b", "c", "d", "e", "f", "g", "h">>, title |-> Untitled,
           suffix |-> ActiveMark]

\* no session: the message says so
C38_WitnessNone == Listed /\ listInput.sessions = <<>> /\ listOutput.header = NoSessionsFound


\* the send of request r failed: sendPermissionRequest threw
SendFailed(r) == hResult[r] = Threw(SendError)

\* C39: when the send of a permission request fails, the correlation table
\* and the store have no entry for the request, no awaitable and no timer
\* exist for it and no terminal edit is posted for it, then and ever after;
\* the step in which the send fails changes nothing of the store, of the
\* table or of the other requests.
C39_FailedSendLeavesNothing ==
    /\ [](\A r \in ReqIds :
            SendFailed(r) =>
               /\ r \notin DOMAIN pendingMessageIds
               /\ r \notin DOMAIN requests
               /\ hPromise[r] = 0
               /\ \A p \in DOMAIN promises : promises[p].id # r
               /\ edit[r] = NoEdit
               /\ pc[r] = "done")
    /\ [][\A r \in ReqIds :
            (~SendFailed(r) /\ SendFailed(r)') =>
               /\ UNCHANGED <<requests, promises, pendingMessageIds, edit, hPromise>>
               /\ \A q \in ReqIds \ {r} :
                     pc'[q] = pc[q] /\ hResult'[q] = hResult[q] /\ hook'[q] = hook[q]]_vars

\* the send of one request failed while another was pending in the store
\* with its entry in the table, and that one was resolved afterwards
C39_Witness ==
    \E a, b \in ReqIds :
        /\ a # b
        /\ SendFailed(a)
        /\ hPromise[b] # 0 /\ promises[hPromise[b]].st = "fulfilled"
        /\ promises[hPromise[b]].addedAt < now
        /\ edit[b].n > 0


\* C40: when add is called with an id that is still pending, the store
\* holds one record for the id, and the awaitable of the earlier call and
\* the awaitable of the later call are both completed in the end: a timer
\* that runs takes away only the record of its own call.
C40_BothComplete ==
    /\ [][\A p \in DOMAIN promises :
            (promises[p].id \in DOMAIN requests /\ requests[promises[p].id] = p
               /\ promises[p].id \notin DOMAIN requests') => promises'[p].st # "pending"]_vars
    /\ \A p \in 1..MaxPromises :
          (p \in DOMAIN promises /\ Collides(p)) ~> (p \in DOMAIN promises /\ Settled(p))

=============================================================================
